---- MODULE Spec2Model ----
(***************************************************************************)
(* docker-network-viz: the ContainerInfo model, the topology builder, the  *)
(* reachability resolver and the visualize command.                        *)
(*                                                                         *)
(* Go strings are sequences of byte codes, compared bytewise as Go's < on  *)
(* strings does.  A []string is a slice header (ptr, len, cap) over a      *)
(* backing array kept in `heap`, so that two headers over one array alias  *)
(* as they do in Go.                                                       *)
(***************************************************************************)
EXTENDS Integers, Sequences, FiniteSets, TLC

VARIABLES
    heap,       \* backing arrays of every []string, by address 1..Len(heap)
    objs,       \* ContainerInfo machine: the allocated *ContainerInfo, by address
    ghostA,     \* ContainerInfo machine: per object, the alias values added so far
    ghostN,     \* ContainerInfo machine: per object, the network values added so far
    last,       \* ContainerInfo machine: the operation just performed
    prev,       \* ContainerInfo machine: the operation before it
    nops,       \* ContainerInfo machine: number of operations performed
    input,      \* topology: the raw container records handed to the builders
    tpc,        \* topology: "input", then "built", then "reached"
    containerMap,         \* topology: result of BuildContainerMap
    networkToContainers,  \* topology: result of BuildNetworkToContainersMap
    reach,      \* topology: the last ReachableContainers call and its result
    mut,        \* topology: the mutations made on built entries, the last one's target
    cfg,        \* visualize: the flags, the output writer and the colour library's switch
    rpc,        \* visualize: position in runVisualize
    networks,   \* visualize: result of FetchNetworks
    fault,      \* visualize: the daemon call that failed and the error it gave
    rerr,       \* visualize: the error runVisualize returns (nil while it runs)
    sink,       \* visualize: the bytes written to the output writer
    calls,      \* visualize: number of calls made, by callee
    daemon,     \* visualize: the lists the daemon's SDK calls handed back
    tree        \* renderers: the renderer call made on its own, with its arguments

infoVars == <<objs, ghostA, ghostN, last, prev, nops>>
topoVars == <<input, tpc, containerMap, networkToContainers, reach, mut>>
runVars == <<cfg, rpc, networks, fault, rerr, sink, calls, daemon, tree>>
vars == <<heap, infoVars, topoVars, runVars>>

----------------------------------------------------------------------------
(* Bounds *)

\* operations performed on the ContainerInfo machine after construction
MaxOps == 3
\* ContainerInfo objects alive at once (the first one and its clones)
MaxObjs == 2
\* raw container records in one input of the builders
MaxRecs == 2

----------------------------------------------------------------------------
(* Strings *)

\* '/' , the prefix sanitizeContainerName trims
Slash == 47

sA == <<97>>
sB == <<98>>
sC == <<99>>
sP == <<112>>
sQ == <<113>>
sR == <<114>>
sV == <<118>>
sW == <<119>>
sN1 == <<110, 49>>
sN2 == <<110, 50>>
sN3 == <<110, 51>>
sMod == <<109>>

\* Go's s < t on strings: bytewise lexicographic
RECURSIVE StrLess(_, _)
StrLess(s, t) ==
    IF t = <<>> THEN FALSE
    ELSE IF s = <<>> THEN TRUE
    ELSE IF Head(s) # Head(t) THEN Head(s) < Head(t)
    ELSE StrLess(Tail(s), Tail(t))

StrLeq(s, t) == s = t \/ StrLess(s, t)

Range(f) == {f[i] : i \in DOMAIN f}

\* the sorts of package sort on slices of at most 12 elements: an insertion
\* sort, element i moved left while it is less than its left neighbour.
\* Works on the keys and yields the order of the indices.
RECURSIVE InsertIdx(_, _, _)
InsertIdx(keys, acc, i) ==
    IF acc = <<>> THEN <<i>>
    ELSE LET l == acc[Len(acc)]
         IN  IF StrLess(keys[i], keys[l])
             THEN Append(InsertIdx(keys, SubSeq(acc, 1, Len(acc) - 1), i), l)
             ELSE Append(acc, i)

RECURSIVE SortIdx(_, _)
SortIdx(keys, n) ==
    IF n = 0 THEN <<>> ELSE InsertIdx(keys, SortIdx(keys, n - 1), n)

\* sort.Slice(xs, func(i, j) bool { return key(xs[i]) < key(xs[j]) })
SortSliceBy(xs, keys) ==
    LET idx == SortIdx(keys, Len(keys)) IN [i \in 1..Len(xs) |-> xs[idx[i]]]

\* sort.Strings(xs)
SortStrings(xs) == SortSliceBy(xs, xs)

----------------------------------------------------------------------------
(* []string over the heap *)

\* []string{} and make([]string, 0): no backing array
EmptySlice == [ptr |-> 0, len |-> 0, cap |-> 0]

\* the elements a slice header shows
Elems(h, s) == IF s.len = 0 THEN <<>> ELSE SubSeq(h[s.ptr], 1, s.len)

\* append(s, v): in place when capacity is left, else into a grown copy
appendStr(h, s, v) ==
    IF s.len < s.cap
    THEN [heap |-> [h EXCEPT ![s.ptr][s.len + 1] = v],
          s    |-> [s EXCEPT !.len = s.len + 1]]
    ELSE LET newcap == IF s.cap = 0 THEN 1 ELSE 2 * s.cap
             zero == [i \in 1..(newcap - s.len - 1) |-> <<>>]
             arr == Append(Elems(h, s), v) \o zero
         IN  [heap |-> Append(h, arr),
              s    |-> [ptr |-> Len(h) + 1, len |-> s.len + 1, cap |-> newcap]]

\* t := make([]string, len(s)); copy(t, s)
makeCopy(h, s) ==
    IF s.len = 0 THEN [heap |-> h, s |-> EmptySlice]
    ELSE [heap |-> Append(h, Elems(h, s)),
          s    |-> [ptr |-> Len(h) + 1, len |-> s.len, cap |-> s.len]]

----------------------------------------------------------------------------
(* models.ContainerInfo *)

NewContainerInfo(name) ==
    [Name |-> name, Aliases |-> EmptySlice, Networks |-> EmptySlice]

HasAlias(h, c, alias) == \E i \in 1..c.Aliases.len : h[c.Aliases.ptr][i] = alias

HasNetwork(h, c, network) == \E i \in 1..c.Networks.len : h[c.Networks.ptr][i] = network

AliasCount(c) == c.Aliases.len

NetworkCount(c) == c.Networks.len

AddAliasNoCheck(h, c, alias) ==
    LET r == appendStr(h, c.Aliases, alias)
    IN  [heap |-> r.heap, c |-> [c EXCEPT !.Aliases = r.s], added |-> TRUE]

AddAlias(h, c, alias) ==
    IF \E i \in 1..c.Aliases.len : h[c.Aliases.ptr][i] = alias
    THEN [heap |-> h, c |-> c, added |-> FALSE]
    ELSE LET r == appendStr(h, c.Aliases, alias)
         IN  [heap |-> r.heap, c |-> [c EXCEPT !.Aliases = r.s], added |-> TRUE]

AddNetworkScansAliases(h, c, network) ==
    IF \E i \in 1..c.Aliases.len : h[c.Aliases.ptr][i] = network
    THEN [heap |-> h, c |-> c, added |-> FALSE]
    ELSE LET r == appendStr(h, c.Networks, network)
         IN  [heap |-> r.heap, c |-> [c EXCEPT !.Networks = r.s], added |-> TRUE]

AddNetwork(h, c, network) ==
    IF \E i \in 1..c.Networks.len : h[c.Networks.ptr][i] = network
    THEN [heap |-> h, c |-> c, added |-> FALSE]
    ELSE LET r == appendStr(h, c.Networks, network)
         IN  [heap |-> r.heap, c |-> [c EXCEPT !.Networks = r.s], added |-> TRUE]

\* sort.Strings applied to the slice it was given, not to a copy
sortedInPlace(h, s) ==
    IF s.len = 0 THEN [heap |-> h, s |-> s]
    ELSE [heap |-> [h EXCEPT ![s.ptr] = SortStrings(SubSeq(@, 1, s.len))
                                            \o SubSeq(@, s.len + 1, Len(@))],
          s    |-> s]

\* sorted := make([]string, len(s)); copy(sorted, s); sort.Strings(sorted):
\* the memory afterwards and the header of the sorted copy
sortedCopy(h, s) ==
    LET cp == makeCopy(h, s)
    IN  IF cp.s.len = 0 THEN cp
        ELSE [heap |-> [cp.heap EXCEPT ![cp.s.ptr] = SortStrings(@)], s |-> cp.s]

\* a call of c.SortedNetworks() and of c.SortedAliases() in memory
SortedNetworksCall(h, c) == sortedCopy(h, c.Networks)
SortedAliasesCall(h, c) == sortedCopy(h, c.Aliases)

SortedNetworks(h, c) == SortStrings(Elems(h, c.Networks))

SortedAliases(h, c) == SortStrings(Elems(h, c.Aliases))

CloneShallow(h, c) == [heap |-> h, c |-> c]

Clone(h, c) ==
    LET a == makeCopy(h, c.Aliases)
        n == makeCopy(a.heap, c.Networks)
    IN  [heap |-> n.heap,
         c    |-> [Name |-> c.Name, Aliases |-> a.s, Networks |-> n.s]]

\* what a reader of a ContainerInfo sees: its name and the elements of its slices
View(h, c) ==
    [Name |-> c.Name, Aliases |-> Elems(h, c.Aliases), Networks |-> Elems(h, c.Networks)]

Views(h, os) == [i \in 1..Len(os) |-> View(h, os[i])]

----------------------------------------------------------------------------
(* The ContainerInfo machine: one ContainerInfo built by NewContainerInfo  *)
(* and a run of adds, then any AddAlias / AddNetwork / Clone / name        *)
(* assignment on it and on its clones.                                     *)

InfoNames == {sA}
InfoInitAliases == {<<>>, <<sP>>, <<sP, sQ, sP, sR>>}
InfoInitNetworks == {<<>>, <<sN1, sN2, sN1>>}
InfoAliases == {sP, sV, sW}
InfoNetworks == {sN1, sN3}
InfoNewNames == {sMod}

\* The folds below go on from a step's result r as the one element of a set:
\* TLC then evaluates the step once, where it is made, and not again inside
\* every later step.

RECURSIVE AddAliases(_, _, _)
AddAliases(h, c, as) ==
    IF as = <<>> THEN [heap |-> h, c |-> c]
    ELSE CHOOSE out \in {AddAliases(r.heap, r.c, Tail(as)) :
                             r \in {AddAlias(h, c, Head(as))}} : TRUE

RECURSIVE AddNetworks(_, _, _)
AddNetworks(h, c, ns) ==
    IF ns = <<>> THEN [heap |-> h, c |-> c]
    ELSE CHOOSE out \in {AddNetworks(r.heap, r.c, Tail(ns)) :
                             r \in {AddNetwork(h, c, Head(ns))}} : TRUE

NoOp == [op |-> "none", o |-> 0, v |-> <<>>, ret |-> FALSE, pre |-> <<>>]

NoReach == [self |-> <<>>, network |-> <<>>, netMap |-> <<>>, result |-> <<>>]

\* a nil error; an error is the chain of its messages, outermost first
Nil == <<>>

NoFault == [step |-> "none", cause |-> Nil]

NoCfg == [onlyNetwork |-> <<>>, container |-> <<>>, noAliases |-> FALSE, noColor |-> FALSE,
          isFile |-> FALSE, isCharDevice |-> FALSE, libNoColor |-> TRUE]

NoCalls == [NewClient |-> 0, FetchNetworks |-> 0, FetchContainers |-> 0,
            BuildContainerMap |-> 0, BuildNetworkToContainersMap |-> 0,
            printVisualization |-> 0, Close |-> 0]

\* no renderer called on its own
NoTree == [op |-> "none", net |-> <<>>, containers |-> <<>>, c |-> <<>>, netMap |-> <<>>,
           w |-> <<>>, noColor |-> FALSE, given |-> <<>>, result |-> <<>>]

\* no list handed back by the daemon yet
NoDaemon == [networks |-> <<>>, containers |-> <<>>, close |-> <<>>]

\* the visualize variables while runVisualize is not running
RunIdle ==
    /\ cfg = NoCfg
    /\ rpc = "idle"
    /\ networks = <<>>
    /\ fault = NoFault
    /\ rerr = Nil
    /\ sink = <<>>
    /\ calls = NoCalls
    /\ daemon = NoDaemon
    /\ tree = NoTree

NoMut == [n |-> 0, target |-> <<>>, pre |-> <<>>]

\* the topology variables while the ContainerInfo machine runs
TopoIdle ==
    /\ input = <<>>
    /\ tpc = "idle"
    /\ containerMap = <<>>
    /\ networkToContainers = <<>>
    /\ reach = NoReach
    /\ mut = NoMut

InfoInit ==
    \E nm \in InfoNames, as \in InfoInitAliases, ns \in InfoInitNetworks :
        LET a == AddAliases(<<>>, NewContainerInfo(nm), as)
            n == AddNetworks(a.heap, a.c, ns)
        IN  /\ heap = n.heap
            /\ objs = <<n.c>>
            /\ ghostA = <<Range(as)>>
            /\ ghostN = <<Range(ns)>>
            /\ last = NoOp
            /\ prev = NoOp
            /\ nops = 0
            /\ TopoIdle
            /\ RunIdle

Record(op, o, v, ret) ==
    /\ last' = [op |-> op, o |-> o, v |-> v, ret |-> ret, pre |-> Views(heap, objs)]
    /\ prev' = last
    /\ nops' = nops + 1
    /\ UNCHANGED <<topoVars, runVars>>

DoAddAlias ==
    \E o \in 1..Len(objs), v \in InfoAliases :
        LET r == AddAlias(heap, objs[o], v)
        IN  /\ nops < MaxOps
            /\ heap' = r.heap
            /\ objs' = [objs EXCEPT ![o] = r.c]
            /\ ghostA' = [ghostA EXCEPT ![o] = @ \cup {v}]
            /\ Record("AddAlias", o, v, r.added)
            /\ UNCHANGED ghostN

DoAddNetwork ==
    \E o \in 1..Len(objs), v \in InfoNetworks :
        LET r == AddNetwork(heap, objs[o], v)
        IN  /\ nops < MaxOps
            /\ heap' = r.heap
            /\ objs' = [objs EXCEPT ![o] = r.c]
            /\ ghostN' = [ghostN EXCEPT ![o] = @ \cup {v}]
            /\ Record("AddNetwork", o, v, r.added)
            /\ UNCHANGED ghostA

DoClone ==
    \E o \in 1..Len(objs) :
        LET r == Clone(heap, objs[o])
        IN  /\ nops < MaxOps
            /\ Len(objs) < MaxObjs
            /\ heap' = r.heap
            /\ objs' = Append(objs, r.c)
            /\ ghostA' = Append(ghostA, ghostA[o])
            /\ ghostN' = Append(ghostN, ghostN[o])
            /\ Record("Clone", o, <<>>, FALSE)

\* c.Name = "modified"
DoSetName ==
    \E o \in 1..Len(objs), nm \in InfoNewNames :
        /\ nops < MaxOps
        /\ objs' = [objs EXCEPT ![o].Name = nm]
        /\ Record("SetName", o, nm, FALSE)
        /\ UNCHANGED <<heap, ghostA, ghostN>>

InfoNext == DoAddAlias \/ DoAddNetwork \/ DoClone \/ DoSetName

SpecInfo == InfoInit /\ [][InfoNext]_vars

----------------------------------------------------------------------------
(* Claims on the ContainerInfo machine *)

InfoStrings == InfoAliases \cup InfoNetworks \cup UNION {Range(as) : as \in InfoInitAliases}
                   \cup UNION {Range(ns) : ns \in InfoInitNetworks}

IsAdd(r) == r.op \in {"AddAlias", "AddNetwork"}

\* the set the operation r works on, as it was before r
PreSet(r) ==
    IF r.op = "AddAlias" THEN Range(r.pre[r.o].Aliases) ELSE Range(r.pre[r.o].Networks)

\* the cardinality the operation r works on, before r and now
PreCount(r) ==
    IF r.op = "AddAlias" THEN Len(r.pre[r.o].Aliases) ELSE Len(r.pre[r.o].Networks)

NowCount(r) ==
    IF r.op = "AddAlias" THEN AliasCount(objs[r.o]) ELSE NetworkCount(objs[r.o])

SameCall(r, q) == r.op = q.op /\ r.o = q.o /\ r.v = q.v

\* C8: AddAlias and AddNetwork return true iff the value was absent before
\* the call and then grow the cardinality by one (else leave it alone); a
\* second call in a row with the same value returns false, leaves the
\* ContainerInfo as it was, and so the two calls together change the
\* cardinality at most once.
C8_IdempotentAdd ==
    /\ IsAdd(last) =>
          /\ last.ret = (last.v \notin PreSet(last))
          /\ NowCount(last) = PreCount(last) + (IF last.ret THEN 1 ELSE 0)
    /\ (IsAdd(last) /\ SameCall(last, prev)) =>
          /\ last.ret = FALSE
          /\ Views(heap, objs) = last.pre
          /\ NowCount(last) = PreCount(prev) + (IF prev.ret THEN 1 ELSE 0)

\* C8 witness: the same new value added twice in a row, first accepted, then refused
C8_Witness ==
    /\ last.op = "AddNetwork" /\ SameCall(last, prev)
    /\ prev.ret = TRUE /\ last.ret = FALSE
    /\ NowCount(last) = PreCount(prev) + 1

NoDup(seq) == \A i, j \in 1..Len(seq) : seq[i] = seq[j] => i = j

\* C9: in every ContainerInfo reached from NewContainerInfo by AddAlias,
\* AddNetwork and Clone, aliases and networks hold no duplicate, HasAlias /
\* HasNetwork answer true exactly for the values added so far, and
\* AliasCount / NetworkCount are the numbers of distinct values added.
C9_SetInvariant ==
    \A o \in 1..Len(objs) :
        /\ NoDup(Elems(heap, objs[o].Aliases))
        /\ NoDup(Elems(heap, objs[o].Networks))
        /\ \A s \in InfoStrings :
              /\ HasAlias(heap, objs[o], s) <=> s \in ghostA[o]
              /\ HasNetwork(heap, objs[o], s) <=> s \in ghostN[o]
        /\ AliasCount(objs[o]) = Cardinality(ghostA[o])
        /\ NetworkCount(objs[o]) = Cardinality(ghostN[o])

\* C9 witness: a clone that was offered a value it already held and then a new one
C9_Witness ==
    /\ Len(objs) = 2
    /\ prev.op = "AddAlias" /\ prev.o = 2 /\ prev.ret = FALSE
    /\ last.op = "AddAlias" /\ last.o = 2 /\ last.ret = TRUE
    /\ AliasCount(objs[2]) >= 2

\* C10: Clone returns a ContainerInfo equal to its source and changes no
\* existing one; afterwards a name assignment, AddAlias or AddNetwork on one
\* ContainerInfo changes no other (neither the source through the clone nor
\* the clone through the source).
C10_CloneIsolation ==
    /\ last.op = "Clone" =>
          /\ View(heap, objs[Len(objs)]) = last.pre[last.o]
          /\ \A i \in 1..Len(last.pre) : View(heap, objs[i]) = last.pre[i]
    /\ last.op \in {"AddAlias", "AddNetwork", "SetName"} =>
          \A i \in 1..Len(objs) : i # last.o => View(heap, objs[i]) = last.pre[i]

\* C10 witness: after a Clone, the clone was changed and then the source was
C10_Witness ==
    /\ Len(objs) = 2
    /\ IsAdd(prev) /\ prev.o = 2 /\ prev.ret = TRUE
    /\ IsAdd(last) /\ last.o = 1 /\ last.ret = TRUE
    /\ View(heap, objs[1]) # View(heap, objs[2])

----------------------------------------------------------------------------
(* The topology builder (internal/docker/container.go)                     *)
(*                                                                         *)
(* A raw record (types.Container) is [Names, Networks]: Names a sequence   *)
(* of strings, Networks a Go map from network name to *EndpointSettings,   *)
(* here a function from a set of names to [nil, Aliases].  Go ranges over  *)
(* a map in an unspecified order: every loop over cont.NetworkSettings     *)
(* .Networks takes its keys in an order `ord` chosen by the caller of the  *)
(* operator, any permutation of the keys.                                  *)

NilSettings == [nil |-> TRUE, Aliases |-> <<>>]
Settings(aliases) == [nil |-> FALSE, Aliases |-> aliases]

Perms(S) == {f \in [1..Cardinality(S) -> S] : \A i, j \in DOMAIN f : f[i] = f[j] => i = j}

\* cont.NetworkSettings == nil: a raw record whose NetworkSettings pointer is
\* nil has no Networks field to read
NetworkSettingsNil(cont) == "Networks" \notin DOMAIN cont

\* what reading cont.NetworkSettings.Networks through a nil pointer ends in:
\* the call does not return
nilDereference == [panic |-> "invalid memory address or nil pointer dereference"]

\* the key orders of one range over each record's Networks map (no range is
\* entered on a record whose NetworkSettings is nil)
KeyOrders(containers) ==
    LET keys(i) == IF NetworkSettingsNil(containers[i]) THEN {}
                   ELSE DOMAIN containers[i].Networks
    IN  {o \in [1..Len(containers) -> UNION {Perms(keys(i)) : i \in 1..Len(containers)}] :
            \A i \in 1..Len(containers) : o[i] \in Perms(keys(i))}

\* strings.TrimPrefix(s, "/")
TrimSlash(s) == IF s # <<>> /\ Head(s) = Slash THEN Tail(s) ELSE s

\* sanitizeContainerName reading the last name entry
sanitizeLastName(names) ==
    IF Len(names) = 0 THEN <<>> ELSE TrimSlash(names[Len(names)])

sanitizeContainerName(names) ==
    IF Len(names) = 0 THEN <<>> ELSE TrimSlash(names[1])

\* m[k] = v
MapPut(m, k, v) == (k :> v) @@ m

\* addMembership replacing the aliases by those of the membership at hand
addMembershipOwnAliases(h, ci, netName, netSettings) ==
    LET n == AddNetwork(h, ci, netName)
    IN  IF netSettings.nil THEN [heap |-> n.heap, c |-> n.c]
        ELSE AddAliases(n.heap, [n.c EXCEPT !.Aliases = EmptySlice], netSettings.Aliases)

\* one iteration of `for netName, netSettings := range cont.NetworkSettings.Networks`
addMembership(h, ci, netName, netSettings) ==
    LET n == AddNetwork(h, ci, netName)
    IN  IF netSettings.nil THEN [heap |-> n.heap, c |-> n.c]
        ELSE AddAliases(n.heap, n.c, netSettings.Aliases)

RECURSIVE addMemberships(_, _, _, _)
addMemberships(h, ci, cont, ord) ==
    IF ord = <<>> THEN [heap |-> h, c |-> ci]
    ELSE CHOOSE out \in {addMemberships(r.heap, r.c, cont, Tail(ord)) :
                             r \in {addMembership(h, ci, Head(ord), cont.Networks[Head(ord)])}} : TRUE

ConvertToContainerInfo(h, cont, ord) ==
    IF NetworkSettingsNil(cont) THEN nilDereference
    ELSE addMemberships(h, NewContainerInfo(sanitizeContainerName(cont.Names)), cont, ord)

containerMapStepMerge(h, m, cont, ord) ==
    LET name == sanitizeContainerName(cont.Names)
        ci == IF name \in DOMAIN m THEN m[name] ELSE NewContainerInfo(name)
        r == addMemberships(h, ci, cont, ord)
    IN  [heap |-> r.heap, m |-> MapPut(m, name, r.c)]

\* one iteration of BuildContainerMap's loop over the records
containerMapStep(h, m, cont, ord) ==
    LET name == sanitizeContainerName(cont.Names)
        ci == NewContainerInfo(name)
        r == addMemberships(h, ci, cont, ord)
    IN  [heap |-> r.heap, m |-> MapPut(m, name, r.c)]

RECURSIVE containerMapFrom(_, _, _, _, _)
containerMapFrom(h, m, containers, ords, i) ==
    IF i > Len(containers) THEN [heap |-> h, m |-> m]
    ELSE CHOOSE out \in {containerMapFrom(r.heap, r.m, containers, ords, i + 1) :
                             r \in {containerMapStep(h, m, containers[i], ords[i])}} : TRUE

\* the loop panics at the first record whose NetworkSettings is nil
BuildContainerMap(h, containers, ords) ==
    IF \E i \in 1..Len(containers) : NetworkSettingsNil(containers[i]) THEN nilDereference
    ELSE containerMapFrom(h, <<>>, containers, ords, 1)

\* appendToBuckets leaving the loop after the first network
appendToBucketsFirstOnly(nm, ci, ord) ==
    IF ord = <<>> THEN nm
    ELSE LET netName == Head(ord)
             old == IF netName \in DOMAIN nm THEN nm[netName] ELSE <<>>
         IN  MapPut(nm, netName, Append(old, ci))

\* networkToContainers[netName] = append(networkToContainers[netName], *ci)
RECURSIVE appendToBuckets(_, _, _)
appendToBuckets(nm, ci, ord) ==
    IF ord = <<>> THEN nm
    ELSE LET netName == Head(ord)
             old == IF netName \in DOMAIN nm THEN nm[netName] ELSE <<>>
         IN  CHOOSE out \in {appendToBuckets(r, ci, Tail(ord)) :
                                 r \in {MapPut(nm, netName, Append(old, ci))}} : TRUE

RECURSIVE bucketsFrom(_, _, _, _, _)
bucketsFrom(nm, cm, containers, ords, i) ==
    IF i > Len(containers) THEN nm
    ELSE LET name == sanitizeContainerName(containers[i].Names)
         IN  CHOOSE out \in {bucketsFrom(r, cm, containers, ords, i + 1) :
                                 r \in {appendToBuckets(nm, cm[name], ords[i])}} : TRUE

\* sort.Slice(containerList, func(i, j) { return containerList[i].Name < containerList[j].Name })
sortBucket(containerList) ==
    SortSliceBy(containerList, [i \in 1..Len(containerList) |-> containerList[i].Name])

\* ords1: the key orders of the inner BuildContainerMap; ords2: of the bucket loop
BuildNetworkToContainersMap(h, containers, ords1, ords2) ==
    IF BuildContainerMap(h, containers, ords1) = nilDereference THEN nilDereference
    ELSE
    CHOOSE out \in
        {[heap |-> b.heap, m |-> [netName \in DOMAIN nm |-> sortBucket(nm[netName])]] :
            b \in {BuildContainerMap(h, containers, ords1)},
            nm \in {bucketsFrom(<<>>, BuildContainerMap(h, containers, ords1).m, containers, ords2, 1)}} : TRUE

----------------------------------------------------------------------------
(* The reachability resolver (internal/output/reachability.go) *)

RECURSIVE othersOf(_, _)
othersOf(self, bucket) ==
    IF bucket = <<>> THEN <<>>
    ELSE IF Head(bucket).Name # self
         THEN <<Head(bucket).Name>> \o othersOf(self, Tail(bucket))
         ELSE othersOf(self, Tail(bucket))

\* netMap[network]: the zero value (an empty bucket) for a missing key or a nil map
Lookup(netMap, network) == IF network \in DOMAIN netMap THEN netMap[network] ELSE <<>>

ReachableNoFilter(self, network, netMap) ==
    SortStrings([i \in 1..Len(Lookup(netMap, network)) |-> Lookup(netMap, network)[i].Name])

ReachableNoSort(self, network, netMap) == othersOf(self, Lookup(netMap, network))

ReachableContainers(self, network, netMap) ==
    SortStrings(othersOf(self, Lookup(netMap, network)))

----------------------------------------------------------------------------
(* The topology pipeline: raw records, then both builders (as runVisualize *)
(* calls them on the same records), then one ReachableContainers call.     *)

slA == <<Slash, 97>>
slB == <<Slash, 98>>

\* Names of a raw record: none, "/a", "a" (resolves like "/a"), "/b" with a
\* second entry, "//a"
RawNames == {<<>>, <<slA>>, <<sA>>, <<slB, slA>>, <<<<Slash>> \o slA>>}

\* cont.NetworkSettings.Networks of a raw record whose NetworkSettings is set
RawNetworks ==
    { <<>>,
      (sN1 :> NilSettings),
      (sN1 :> Settings(<<sP>>)) @@ (sN2 :> Settings(<<sQ, sR>>)),
      (sN2 :> Settings(<<sQ, sP, sQ>>)) }

\* raw records: with NetworkSettings set, and with the nil NetworkSettings
\* pointer that types.Container allows
RawRecords ==
    {[Names |-> n, Networks |-> m] : n \in RawNames, m \in RawNetworks}
        \cup {[Names |-> n] : n \in RawNames}

Inputs == UNION {[1..n -> RawRecords] : n \in 0..MaxRecs}

ReachSelves == {<<>>, sA, sB}
ReachNetworks == {sN1, sN2}

InfoIdle ==
    /\ objs = <<>>
    /\ ghostA = <<>>
    /\ ghostN = <<>>
    /\ last = NoOp
    /\ prev = NoOp
    /\ nops = 0

Init ==
    /\ input \in Inputs
    /\ tpc = "input"
    /\ heap = <<>>
    /\ containerMap = <<>>
    /\ networkToContainers = <<>>
    /\ reach = NoReach
    /\ mut = NoMut
    /\ InfoIdle
    /\ RunIdle

\* containerMap := client.BuildContainerMap(containers)
\* networkToContainers := client.BuildNetworkToContainersMap(containers)
Build ==
    /\ tpc = "input"
    /\ \E o1, o2, o3 \in KeyOrders(input) :
       \E cm \in {BuildContainerMap(heap, input, o1)} :
       cm # nilDereference /\
       \E nm \in {BuildNetworkToContainersMap(cm.heap, input, o2, o3)} :
          /\ heap' = nm.heap
          /\ containerMap' = cm.m
          /\ networkToContainers' = nm.m
    /\ tpc' = "built"
    /\ UNCHANGED <<input, reach, mut, infoVars, runVars>>

\* containerMap := client.BuildContainerMap(containers) panics: no map is made
BuildPanics ==
    /\ tpc = "input"
    /\ \E o1 \in KeyOrders(input) : BuildContainerMap(heap, input, o1) = nilDereference
    /\ tpc' = "panicked"
    /\ UNCHANGED <<heap, input, containerMap, networkToContainers, reach, mut, infoVars, runVars>>

\* the same bucket as a caller may have written it: its entries in any order
Reorderings(bucket) ==
    {[i \in 1..Len(bucket) |-> bucket[p[i]]] : p \in Perms(1..Len(bucket))}

\* others := ReachableContainers(self, network, netMap), on the built map or on
\* a map a caller wrote by hand (the same entries, buckets in any order)
Reach ==
    /\ tpc = "built"
    /\ \E self \in ReachSelves, network \in ReachNetworks :
       \E bucket \in Reorderings(Lookup(networkToContainers, network)) :
          LET netMap == IF network \in DOMAIN networkToContainers
                        THEN MapPut(networkToContainers, network, bucket)
                        ELSE networkToContainers
          IN  reach' = [self |-> self, network |-> network, netMap |-> netMap,
                        result |-> ReachableContainers(self, network, netMap)]
    /\ tpc' = "reached"
    /\ UNCHANGED <<heap, input, containerMap, networkToContainers, mut, infoVars, runVars>>

Next == Build \/ BuildPanics \/ Reach

Spec == Init /\ [][Next]_vars

----------------------------------------------------------------------------
(* Claims on the topology pipeline *)

Built == tpc \in {"built", "reached"}

\* the resolved display name of the i-th raw record
Resolved(i) == sanitizeContainerName(input[i].Names)

\* the last raw record that resolves to `name`
LastOf(name) ==
    CHOOSE i \in 1..Len(input) :
        /\ Resolved(i) = name
        /\ \A j \in 1..Len(input) : Resolved(j) = name => j <= i

UniqueName(i) == \A j \in 1..Len(input) : Resolved(j) = Resolved(i) => j = i

\* what a raw record declares: its network names, and the aliases of its memberships
DeclaredNetworks(rec) == DOMAIN rec.Networks
DeclaredAliases(rec) == UNION {Range(rec.Networks[k].Aliases) : k \in DOMAIN rec.Networks}

NetworkSet(h, c) == Range(Elems(h, c.Networks))
AliasSet(h, c) == Range(Elems(h, c.Aliases))

Names(bucket) == [i \in 1..Len(bucket) |-> bucket[i].Name]
Count(seq, x) == Cardinality({i \in 1..Len(seq) : seq[i] = x})
Ascending(seq) == \A i, j \in 1..Len(seq) : i < j => StrLeq(seq[i], seq[j])

\* C1: self-exclusion: when self is a member of the looked-up network's
\* bucket, ReachableContainers never returns self's name.
C1_SelfExclusion ==
    (/\ tpc = "reached"
     /\ reach.network \in DOMAIN reach.netMap
     /\ \E i \in 1..Len(reach.netMap[reach.network]) :
           reach.netMap[reach.network][i].Name = reach.self)
    => reach.self \notin Range(reach.result)

\* C1 witness: self is on the network together with another container, which is returned
C1_Witness ==
    /\ tpc = "reached"
    /\ reach.network \in DOMAIN reach.netMap
    /\ Count(Names(reach.netMap[reach.network]), reach.self) > 0
    /\ reach.result # <<>>

\* C2: ReachableContainers returns, in ascending order, one element per
\* entry of the network's bucket whose name differs from self, and nothing
\* else; a network that is not a key of the map (also of an empty map)
\* yields the empty result.
C2_ReachableContract ==
    tpc = "reached" =>
        IF reach.network \notin DOMAIN reach.netMap
        THEN reach.result = <<>>
        ELSE LET names == Names(reach.netMap[reach.network])
             IN  /\ Ascending(reach.result)
                 /\ Range(reach.result) \subseteq Range(names)
                 /\ Count(reach.result, reach.self) = 0
                 /\ \A s \in Range(names) \ {reach.self} :
                       Count(reach.result, s) = Count(names, s)

\* C2 witness: a bucket given out of order, two of whose entries are returned
C2_Witness ==
    /\ tpc = "reached"
    /\ reach.network \in DOMAIN reach.netMap
    /\ ~Ascending(Names(reach.netMap[reach.network]))
    /\ Len(reach.result) >= 2

\* C3: in the result of BuildNetworkToContainersMap every bucket N is sorted
\* ascending by name, every entry of bucket N has N in its own networks, and
\* every container with N in its networks has exactly one entry in bucket N.
C3_OneEntryPerMember ==
    Built =>
        /\ \A n \in DOMAIN networkToContainers :
              /\ Ascending(Names(networkToContainers[n]))
              /\ \A i \in 1..Len(networkToContainers[n]) :
                    n \in NetworkSet(heap, networkToContainers[n][i])
        /\ \A name \in DOMAIN containerMap :
              \A n \in NetworkSet(heap, containerMap[name]) :
                 /\ n \in DOMAIN networkToContainers
                 /\ Count(Names(networkToContainers[n]), name) = 1

\* the buckets as a reader sees them: names in order, aliases and networks as sets
BucketView(h, m) ==
    [n \in DOMAIN m |->
        [i \in 1..Len(m[n]) |->
            [Name |-> m[n][i].Name,
             Aliases |-> AliasSet(h, m[n][i]),
             Networks |-> NetworkSet(h, m[n][i])]]]

Permuted(seq, p) == [i \in 1..Len(seq) |-> seq[p[i]]]

\* C4: sort invariance: BuildNetworkToContainersMap on any permutation of the
\* input records yields the same buckets in the same order.
C4_SortInvariance ==
    tpc = "built" =>
        \A p \in Perms(1..Len(input)) :
            LET other == Permuted(input, p)
            IN  \A o1, o2 \in KeyOrders(other) :
                    LET r == BuildNetworkToContainersMap(<<>>, other, o1, o2)
                    IN  BucketView(r.heap, r.m) = BucketView(heap, networkToContainers)

\* C5: BuildContainerMap returns one entry per distinct resolved name, and
\* the entry of a name holds exactly the networks and aliases of the last
\* record that resolves to it (nothing of an earlier record is merged in).
C5_LastWriteWins ==
    Built =>
        /\ DOMAIN containerMap = {Resolved(i) : i \in 1..Len(input)}
        /\ \A name \in DOMAIN containerMap :
              /\ containerMap[name].Name = name
              /\ NetworkSet(heap, containerMap[name]) = DeclaredNetworks(input[LastOf(name)])
              /\ AliasSet(heap, containerMap[name]) = DeclaredAliases(input[LastOf(name)])

\* C5 witness: two records resolve to one name and the earlier one declares
\* a network and an alias the later one does not
C5_Witness ==
    /\ tpc = "built"
    /\ \E i, j \in 1..Len(input) :
          /\ i < j /\ Resolved(i) = Resolved(j)
          /\ ~(DeclaredNetworks(input[i]) \subseteq DeclaredNetworks(input[j]))
          /\ ~(DeclaredAliases(input[i]) \subseteq DeclaredAliases(input[j]))

\* C6: the builders have no failure mode: a build never ends in a panic; no
\* records give two empty maps; a record without memberships is in the
\* container map with zero networks, and its ContainerInfo is in no bucket
\* (where records share a name, the container map holds the last one's); a
\* membership whose descriptor is nil contributes its network, and a bucket
\* entry, and no alias.
C6_Tolerant ==
    /\ tpc # "panicked"
    /\ Built =>
        /\ input = <<>> => (DOMAIN containerMap = {} /\ DOMAIN networkToContainers = {})
        /\ \A n \in DOMAIN networkToContainers :
              Len(networkToContainers[n])
                  = Cardinality({i \in 1..Len(input) : n \in DeclaredNetworks(input[i])})
        /\ \A i \in 1..Len(input) :
              /\ Resolved(i) \in DOMAIN containerMap
              /\ (DeclaredNetworks(input[i]) = {} /\ LastOf(Resolved(i)) = i) =>
                    /\ NetworkCount(containerMap[Resolved(i)]) = 0
                    /\ AliasCount(containerMap[Resolved(i)]) = 0
                    /\ \A n \in DOMAIN networkToContainers :
                          Count(Names(networkToContainers[n]), Resolved(i)) = 0
              /\ \A n \in DeclaredNetworks(input[i]) :
                    input[i].Networks[n].nil =>
                        /\ n \in DOMAIN networkToContainers
                        /\ Count(Names(networkToContainers[n]), Resolved(i)) >= 1
                        /\ LastOf(Resolved(i)) = i =>
                              /\ HasNetwork(heap, containerMap[Resolved(i)], n)
                              /\ AliasSet(heap, containerMap[Resolved(i)])
                                     = DeclaredAliases(input[i])

----------------------------------------------------------------------------
(* The renderers (internal/output) and the colour writer.  Output is the   *)
(* byte string written to the io.Writer; the glyphs are their UTF-8 bytes. *)
(* A writer is [isFile, isCharDevice, libNoColor]: whether it is an        *)
(* *os.File, whether its mode has ModeCharDevice, and the state of the     *)
(* colour library's NoColor switch while it is written to.                 *)

\* "├──"
TreeBranch == <<226, 148, 156, 226, 148, 128, 226, 148, 128>>
\* "└──"
TreeEnd == <<226, 148, 148, 226, 148, 128, 226, 148, 128>>
\* "│   "
TreeVertical == <<226, 148, 130, 32, 32, 32>>
\* "    "
TreeSpace == <<32, 32, 32, 32>>

\* "=== Networks ===" and the newline of Fprintln
txtNetworksHeader == <<61, 61, 61, 32, 78, 101, 116, 119, 111, 114, 107, 115, 32, 61, 61, 61, 10>>
\* "=== Containers (Reachability) ===" and the newline of Fprintln
txtContainersHeader ==
    <<61, 61, 61, 32, 67, 111, 110, 116, 97, 105, 110, 101, 114, 115, 32, 40, 82, 101, 97,
      99, 104, 97, 98, 105, 108, 105, 116, 121, 41, 32, 61, 61, 61, 10>>
\* "Network:"
txtNetwork == <<78, 101, 116, 119, 111, 114, 107, 58>>
\* "Container:"
txtContainer == <<67, 111, 110, 116, 97, 105, 110, 101, 114, 58>>
\* "connects to:"
txtConnectsTo == <<99, 111, 110, 110, 101, 99, 116, 115, 32, 116, 111, 58>>
\* "alias:"
txtAlias == <<97, 108, 105, 97, 115, 58>>
\* " (none)\n"
txtNone == <<32, 40, 110, 111, 110, 101, 41, 10>>
\* " (no containers)\n"
txtNoContainers == <<32, 40, 110, 111, 32, 99, 111, 110, 116, 97, 105, 110, 101, 114, 115, 41, 10>>

\* the SGR parameters of color.New(...): FgCyan;Bold, FgGreen, FgYellow, FgMagenta, FgBlue
colorNetwork == <<51, 54, 59, 49>>
colorContainer == <<51, 50>>
colorAlias == <<51, 51>>
colorLabel == <<51, 53>>
colorTree == <<51, 52>>

\* (*color.Color).Sprint: ESC [ params m, the text, ESC [ 0 m; the text as it
\* is while the library's NoColor switch is on
Sprint(params, text, libNoColor) ==
    IF libNoColor THEN text
    ELSE <<27, 91>> \o params \o <<109>> \o text \o <<27, 91, 48, 109>>

isTerminal(w) == w.isCharDevice

shouldUseColor(w) == IF w.isFile THEN ~w.libNoColor /\ isTerminal(w) ELSE FALSE

\* the ColorWriter made for writer w under the no-color setting
NewColorWriter(w, noColor) ==
    [writer |-> w, enabled |-> IF noColor THEN FALSE ELSE shouldUseColor(w)]

Network(cw, text) ==
    IF ~cw.enabled THEN text ELSE Sprint(colorNetwork, text, cw.writer.libNoColor)
Container(cw, text) ==
    IF ~cw.enabled THEN text ELSE Sprint(colorContainer, text, cw.writer.libNoColor)
Alias(cw, text) ==
    IF ~cw.enabled THEN text ELSE Sprint(colorAlias, text, cw.writer.libNoColor)
Label(cw, text) ==
    IF ~cw.enabled THEN text ELSE Sprint(colorLabel, text, cw.writer.libNoColor)
\* Tree without the check of the enabled flag
TreeAlwaysStyled(cw, text) == Sprint(colorTree, text, cw.writer.libNoColor)

Tree(cw, text) ==
    IF ~cw.enabled THEN text ELSE Sprint(colorTree, text, cw.writer.libNoColor)

RECURSIVE Flatten(_)
Flatten(ss) == IF ss = <<>> THEN <<>> ELSE Head(ss) \o Flatten(Tail(ss))

NewNetworkInfo(name, driver) == [Name |-> name, Driver |-> driver]

networkTreeEntryUnsortedAliases(h, cw, sortedContainers, i) ==
    LET c == sortedContainers[i]
        isLast == i = Len(sortedContainers)
        prefix == IF isLast THEN TreeEnd ELSE TreeBranch
        indent == IF isLast THEN TreeSpace ELSE TreeVertical
        sortedAliases == Elems(h, c.Aliases)
        aliasLine(j) ==
            LET aliasPrefix == IF j = Len(sortedAliases) THEN TreeEnd ELSE TreeBranch
            IN  Tree(cw, indent) \o Tree(cw, aliasPrefix) \o <<32>> \o Label(cw, txtAlias)
                    \o <<32>> \o Alias(cw, sortedAliases[j]) \o <<10>>
    IN  Tree(cw, prefix) \o <<32>> \o Container(cw, c.Name) \o <<10>>
            \o Flatten([j \in 1..Len(sortedAliases) |-> aliasLine(j)])

\* the lines PrintNetworkTree writes for the i-th container of the sorted list
networkTreeEntry(h, cw, sortedContainers, i) ==
    LET c == sortedContainers[i]
        isLast == i = Len(sortedContainers)
        prefix == IF isLast THEN TreeEnd ELSE TreeBranch
        indent == IF isLast THEN TreeSpace ELSE TreeVertical
        sortedAliases == SortedAliases(h, c)
        aliasLine(j) ==
            LET aliasPrefix == IF j = Len(sortedAliases) THEN TreeEnd ELSE TreeBranch
            IN  Tree(cw, indent) \o Tree(cw, aliasPrefix) \o <<32>> \o Label(cw, txtAlias)
                    \o <<32>> \o Alias(cw, sortedAliases[j]) \o <<10>>
    IN  Tree(cw, prefix) \o <<32>> \o Container(cw, c.Name) \o <<10>>
            \o Flatten([j \in 1..Len(sortedAliases) |-> aliasLine(j)])

PrintNetworkTreeUnsorted(h, w, noColor, net, containers) ==
    LET cw == NewColorWriter(w, noColor)
        header == Label(cw, txtNetwork) \o <<32>> \o Network(cw, net.Name)
                      \o <<32, 40>> \o net.Driver \o <<41, 10>>
    IN  IF Len(containers) = 0
        THEN header \o Tree(cw, TreeEnd) \o txtNoContainers
        ELSE header \o Flatten([i \in 1..Len(containers) |->
                                   networkTreeEntry(h, cw, containers, i)])

PrintNetworkTreeNoPlaceholder(h, w, noColor, net, containers) ==
    LET cw == NewColorWriter(w, noColor)
        header == Label(cw, txtNetwork) \o <<32>> \o Network(cw, net.Name)
                      \o <<32, 40>> \o net.Driver \o <<41, 10>>
        sortedContainers ==
            SortSliceBy(containers, [i \in 1..Len(containers) |-> containers[i].Name])
    IN  header \o Flatten([i \in 1..Len(containers) |->
                               networkTreeEntry(h, cw, sortedContainers, i)])

\* what PrintNetworkTree(w, net, containers) writes to w
PrintNetworkTree(h, w, noColor, net, containers) ==
    LET cw == NewColorWriter(w, noColor)
        header == Label(cw, txtNetwork) \o <<32>> \o Network(cw, net.Name)
                      \o <<32, 40>> \o net.Driver \o <<41, 10>>
        sortedContainers ==
            SortSliceBy(containers, [i \in 1..Len(containers) |-> containers[i].Name])
    IN  IF Len(containers) = 0
        THEN header \o Tree(cw, TreeEnd) \o txtNoContainers
        ELSE header \o Flatten([i \in 1..Len(containers) |->
                                   networkTreeEntry(h, cw, sortedContainers, i)])

\* the memory after the c.SortedAliases() calls of PrintNetworkTree's loop
RECURSIVE aliasCopies(_, _, _)
aliasCopies(h, sortedContainers, i) ==
    IF i > Len(sortedContainers) THEN h
    ELSE CHOOSE out \in {aliasCopies(r.heap, sortedContainers, i + 1) :
                             r \in {SortedAliasesCall(h, sortedContainers[i])}} : TRUE

\* what PrintNetworkTree leaves in memory: the caller's slice (the sort works
\* on the copy sortedContainers) and the heap after the alias copies
PrintNetworkTreeMemory(h, containers) ==
    LET sortedContainers ==
            SortSliceBy(containers, [i \in 1..Len(containers) |-> containers[i].Name])
    IN  IF Len(containers) = 0 THEN [heap |-> h, source |-> containers]
        ELSE [heap |-> aliasCopies(h, sortedContainers, 1), source |-> containers]

\* what PrintContainerTree leaves in memory: the heap after the sorted copy
\* of c.Networks
PrintContainerTreeMemory(h, c) == sortedCopy(h, c.Networks).heap

\* containerTreeEntry with the "connects to:" label behind the network's own glyph
containerTreeEntryLabelGlyph(cw, name, sortedNetworks, i, netMap) ==
    LET net == sortedNetworks[i]
        isLast == i = Len(sortedNetworks)
        prefix == IF isLast THEN TreeEnd ELSE TreeBranch
        indent == IF isLast THEN TreeSpace ELSE TreeVertical
        others == ReachableContainers(name, net, netMap)
        otherLine(j) ==
            LET op == IF j = Len(others) THEN TreeEnd ELSE TreeBranch
            IN  Tree(cw, indent) \o TreeSpace \o Tree(cw, op) \o <<32>>
                    \o Container(cw, others[j]) \o <<10>>
    IN  Tree(cw, prefix) \o <<32>> \o Label(cw, txtNetwork) \o <<32>> \o Network(cw, net) \o <<10>>
            \o Tree(cw, indent) \o Tree(cw, prefix) \o <<32>> \o Label(cw, txtConnectsTo) \o <<10>>
            \o (IF Len(others) = 0
                THEN Tree(cw, indent) \o TreeSpace \o Tree(cw, TreeEnd) \o txtNone
                ELSE Flatten([j \in 1..Len(others) |-> otherLine(j)]))

\* containerTreeEntry with "(none)" written without a glyph
containerTreeEntryBareNone(cw, name, sortedNetworks, i, netMap) ==
    LET net == sortedNetworks[i]
        isLast == i = Len(sortedNetworks)
        prefix == IF isLast THEN TreeEnd ELSE TreeBranch
        indent == IF isLast THEN TreeSpace ELSE TreeVertical
        others == ReachableContainers(name, net, netMap)
        otherLine(j) ==
            LET op == IF j = Len(others) THEN TreeEnd ELSE TreeBranch
            IN  Tree(cw, indent) \o TreeSpace \o Tree(cw, op) \o <<32>>
                    \o Container(cw, others[j]) \o <<10>>
    IN  Tree(cw, prefix) \o <<32>> \o Label(cw, txtNetwork) \o <<32>> \o Network(cw, net) \o <<10>>
            \o Tree(cw, indent) \o Tree(cw, TreeEnd) \o <<32>> \o Label(cw, txtConnectsTo) \o <<10>>
            \o (IF Len(others) = 0
                THEN Tree(cw, indent) \o TreeSpace \o Tail(txtNone)
                ELSE Flatten([j \in 1..Len(others) |-> otherLine(j)]))

\* containerTreeEntry resolving every network against the first network's bucket
containerTreeEntryFirstBucket(cw, name, sortedNetworks, i, netMap) ==
    LET net == sortedNetworks[i]
        isLast == i = Len(sortedNetworks)
        prefix == IF isLast THEN TreeEnd ELSE TreeBranch
        indent == IF isLast THEN TreeSpace ELSE TreeVertical
        others == ReachableContainers(name, sortedNetworks[1], netMap)
        otherLine(j) ==
            LET op == IF j = Len(others) THEN TreeEnd ELSE TreeBranch
            IN  Tree(cw, indent) \o TreeSpace \o Tree(cw, op) \o <<32>>
                    \o Container(cw, others[j]) \o <<10>>
    IN  Tree(cw, prefix) \o <<32>> \o Label(cw, txtNetwork) \o <<32>> \o Network(cw, net) \o <<10>>
            \o Tree(cw, indent) \o Tree(cw, TreeEnd) \o <<32>> \o Label(cw, txtConnectsTo) \o <<10>>
            \o (IF Len(others) = 0
                THEN Tree(cw, indent) \o TreeSpace \o Tree(cw, TreeEnd) \o txtNone
                ELSE Flatten([j \in 1..Len(others) |-> otherLine(j)]))

\* the lines PrintContainerTree writes for the i-th network of the sorted list
containerTreeEntry(cw, name, sortedNetworks, i, netMap) ==
    LET net == sortedNetworks[i]
        isLast == i = Len(sortedNetworks)
        prefix == IF isLast THEN TreeEnd ELSE TreeBranch
        indent == IF isLast THEN TreeSpace ELSE TreeVertical
        others == ReachableContainers(name, net, netMap)
        otherLine(j) ==
            LET op == IF j = Len(others) THEN TreeEnd ELSE TreeBranch
            IN  Tree(cw, indent) \o TreeSpace \o Tree(cw, op) \o <<32>>
                    \o Container(cw, others[j]) \o <<10>>
    IN  Tree(cw, prefix) \o <<32>> \o Label(cw, txtNetwork) \o <<32>> \o Network(cw, net) \o <<10>>
            \o Tree(cw, indent) \o Tree(cw, TreeEnd) \o <<32>> \o Label(cw, txtConnectsTo) \o <<10>>
            \o (IF Len(others) = 0
                THEN Tree(cw, indent) \o TreeSpace \o Tree(cw, TreeEnd) \o txtNone
                ELSE Flatten([j \in 1..Len(others) |-> otherLine(j)]))

\* what PrintContainerTree(w, c, netMap) writes to w
PrintContainerTree(h, w, noColor, c, netMap) ==
    LET cw == NewColorWriter(w, noColor)
        sortedNetworks == SortStrings(Elems(h, c.Networks))
    IN  Label(cw, txtContainer) \o <<32>> \o Container(cw, c.Name) \o <<10>>
            \o Flatten([i \in 1..Len(sortedNetworks) |->
                           containerTreeEntry(cw, c.Name, sortedNetworks, i, netMap)])

----------------------------------------------------------------------------
(* The visualize command (cmd/visualize.go) *)

removeAliasesFromContainers(containers) ==
    [i \in 1..Len(containers) |->
        [Name |-> containers[i].Name, Aliases |-> EmptySlice, Networks |-> containers[i].Networks]]

\* removeAliasesFromContainers emptying the aliases of the entries it was given
removeAliasesInPlace(containers) ==
    [source |-> removeAliasesFromContainers(containers),
     result |-> removeAliasesFromContainers(containers)]

\* a call of removeAliasesFromContainers: the caller's slice after the call
\* (the loop reads its entries and writes to result[i] alone) and the result
removeAliasesCall(containers) ==
    [source |-> containers, result |-> removeAliasesFromContainers(containers)]

\* printVisualization without the only-network test
printVisualizationAllNetworks(h, c, nets, cm, n2c, keyOrder) ==
    LET networkSection(i) ==
            LET netInfo == NewNetworkInfo(nets[i].Name, nets[i].Driver)
                found == Lookup(n2c, nets[i].Name)
                netContainers == IF c.noAliases THEN removeAliasesFromContainers(found)
                                 ELSE found
            IN  PrintNetworkTree(h, c, c.noColor, netInfo, netContainers) \o <<10>>
        containerNames == SortStrings(keyOrder)
        containerSection(i) ==
            IF c.container # <<>> /\ containerNames[i] # c.container THEN <<>>
            ELSE PrintContainerTree(h, c, c.noColor, cm[containerNames[i]], n2c) \o <<10>>
    IN  txtNetworksHeader
            \o Flatten([i \in 1..Len(nets) |-> networkSection(i)])
            \o txtContainersHeader
            \o Flatten([i \in 1..Len(containerNames) |-> containerSection(i)])

\* printVisualization without the blank line after a container block
printVisualizationNoBlank(h, c, nets, cm, n2c, keyOrder) ==
    LET networkSection(i) ==
            IF c.onlyNetwork # <<>> /\ nets[i].Name # c.onlyNetwork THEN <<>>
            ELSE LET netInfo == NewNetworkInfo(nets[i].Name, nets[i].Driver)
                     found == Lookup(n2c, nets[i].Name)
                     netContainers == IF c.noAliases THEN removeAliasesFromContainers(found)
                                      ELSE found
                 IN  PrintNetworkTree(h, c, c.noColor, netInfo, netContainers) \o <<10>>
        containerNames == SortStrings(keyOrder)
        containerSection(i) ==
            IF c.container # <<>> /\ containerNames[i] # c.container THEN <<>>
            ELSE PrintContainerTree(h, c, c.noColor, cm[containerNames[i]], n2c)
    IN  txtNetworksHeader
            \o Flatten([i \in 1..Len(nets) |-> networkSection(i)])
            \o txtContainersHeader
            \o Flatten([i \in 1..Len(containerNames) |-> containerSection(i)])

\* printVisualization without the sort of the container names
printVisualizationUnsorted(h, c, nets, cm, n2c, keyOrder) ==
    LET networkSection(i) ==
            IF c.onlyNetwork # <<>> /\ nets[i].Name # c.onlyNetwork THEN <<>>
            ELSE LET netInfo == NewNetworkInfo(nets[i].Name, nets[i].Driver)
                     found == Lookup(n2c, nets[i].Name)
                     netContainers == IF c.noAliases THEN removeAliasesFromContainers(found)
                                      ELSE found
                 IN  PrintNetworkTree(h, c, c.noColor, netInfo, netContainers) \o <<10>>
        containerNames == keyOrder
        containerSection(i) ==
            IF c.container # <<>> /\ containerNames[i] # c.container THEN <<>>
            ELSE PrintContainerTree(h, c, c.noColor, cm[containerNames[i]], n2c) \o <<10>>
    IN  txtNetworksHeader
            \o Flatten([i \in 1..Len(nets) |-> networkSection(i)])
            \o txtContainersHeader
            \o Flatten([i \in 1..Len(containerNames) |-> containerSection(i)])

\* printVisualization with a container filter that hides the network blocks too
printVisualizationContainerOnly(h, c, nets, cm, n2c, keyOrder) ==
    LET networkSection(i) ==
            IF c.container # <<>> \/ (c.onlyNetwork # <<>> /\ nets[i].Name # c.onlyNetwork)
            THEN <<>>
            ELSE LET netInfo == NewNetworkInfo(nets[i].Name, nets[i].Driver)
                     found == Lookup(n2c, nets[i].Name)
                     netContainers == IF c.noAliases THEN removeAliasesFromContainers(found)
                                      ELSE found
                 IN  PrintNetworkTree(h, c, c.noColor, netInfo, netContainers) \o <<10>>
        containerNames == SortStrings(keyOrder)
        containerSection(i) ==
            IF c.container # <<>> /\ containerNames[i] # c.container THEN <<>>
            ELSE PrintContainerTree(h, c, c.noColor, cm[containerNames[i]], n2c) \o <<10>>
    IN  txtNetworksHeader
            \o Flatten([i \in 1..Len(nets) |-> networkSection(i)])
            \o txtContainersHeader
            \o Flatten([i \in 1..Len(containerNames) |-> containerSection(i)])

\* what printVisualization writes to w; keyOrder is the order in which
\* `for name := range containerMap` yields the keys
printVisualization(h, c, nets, cm, n2c, keyOrder) ==
    LET networkSection(i) ==
            IF c.onlyNetwork # <<>> /\ nets[i].Name # c.onlyNetwork THEN <<>>
            ELSE LET netInfo == NewNetworkInfo(nets[i].Name, nets[i].Driver)
                     found == Lookup(n2c, nets[i].Name)
                     netContainers == IF c.noAliases THEN removeAliasesFromContainers(found)
                                      ELSE found
                 IN  PrintNetworkTree(h, c, c.noColor, netInfo, netContainers) \o <<10>>
        containerNames == SortStrings(keyOrder)
        containerSection(i) ==
            IF c.container # <<>> /\ containerNames[i] # c.container THEN <<>>
            ELSE PrintContainerTree(h, c, c.noColor, cm[containerNames[i]], n2c) \o <<10>>
    IN  txtNetworksHeader
            \o Flatten([i \in 1..Len(nets) |-> networkSection(i)])
            \o txtContainersHeader
            \o Flatten([i \in 1..Len(containerNames) |-> containerSection(i)])

\* fmt.Errorf(msg + ": %w", err): the message leads with msg, Unwrap gives err
Errorf(msg, err) == <<msg>> \o err

\* errors.Is(err, target) for the errors of this model: with a nil err or a
\* nil target it is err == target; otherwise target is err or one of the
\* errors err wraps (errors are told apart by their message chains)
ErrorsIs(err, target) ==
    IF err = Nil \/ target = Nil THEN err = target
    ELSE \E k \in 0..(Len(err) - 1) : SubSeq(err, k + 1, Len(err)) = target

\* docker.NewClient(): client.NewClientWithOpts gave sdkErr
NewClient(sdkErr) ==
    IF sdkErr # Nil THEN Errorf("failed to create Docker client", sdkErr) ELSE Nil

\* FetchNetworks handing on the list as the daemon gave it
FetchNetworksUnsorted(list, sdkErr) ==
    IF sdkErr # Nil
    THEN [networks |-> <<>>, err |-> Errorf("failed to list Docker networks", sdkErr)]
    ELSE [networks |-> list, err |-> Nil]

\* (*Client).FetchNetworks: the daemon's NetworkList gave (list, sdkErr)
FetchNetworks(list, sdkErr) ==
    IF sdkErr # Nil
    THEN [networks |-> <<>>, err |-> Errorf("failed to list Docker networks", sdkErr)]
    ELSE [networks |-> SortSliceBy(list, [i \in 1..Len(list) |-> list[i].Name]), err |-> Nil]

\* (*Client).FetchContainers: the daemon's ContainerList gave (list, sdkErr)
FetchContainers(list, sdkErr) ==
    IF sdkErr # Nil
    THEN [containers |-> <<>>, err |-> Errorf("failed to list Docker containers", sdkErr)]
    ELSE [containers |-> SortSliceBy(list, [i \in 1..Len(list) |->
                                               sanitizeContainerName(list[i].Names)]),
          err |-> Nil]

\* what the Docker SDK can fail with
DaemonErrors == {<<"connection refused">>, <<"permission denied">>}

sBridge == <<98, 114, 105, 100, 103, 101>>
sHost == <<104, 111, 115, 116>>

\* what NetworkList can return, in the daemon's order
DaemonNetworks ==
    { <<>>,
      <<[Name |-> sN2, Driver |-> sBridge], [Name |-> sN1, Driver |-> sHost]>>,
      <<[Name |-> sN3, Driver |-> sBridge], [Name |-> sN1, Driver |-> sBridge]>> }

slC == <<Slash, 99>>

\* what ContainerList can return, in the daemon's order
DaemonContainers ==
    { <<>>,
      <<[Names |-> <<slB>>, Networks |-> (sN1 :> Settings(<<sQ, sP>>)) @@ (sN2 :> Settings(<<>>))],
        [Names |-> <<slA>>, Networks |-> (sN1 :> Settings(<<sP>>))]>>,
      <<[Names |-> <<slA>>, Networks |-> <<>>],
        [Names |-> <<sA>>, Networks |-> (sN2 :> NilSettings)]>>,
      <<[Names |-> <<slC>>, Networks |-> (sN1 :> Settings(<<sR>>))],
        [Names |-> <<slA>>, Networks |-> (sN1 :> Settings(<<sV, sP>>))],
        [Names |-> <<slB>>, Networks |-> (sN1 :> NilSettings) @@ (sN3 :> Settings(<<sW>>))]>> }

\* a bytes.Buffer; a terminal; a terminal with the library's colours off
Writers ==
    { [isFile |-> FALSE, isCharDevice |-> FALSE, libNoColor |-> TRUE],
      [isFile |-> TRUE, isCharDevice |-> TRUE, libNoColor |-> FALSE],
      [isFile |-> TRUE, isCharDevice |-> TRUE, libNoColor |-> TRUE] }

Cfgs ==
    {[onlyNetwork |-> o, container |-> c, noAliases |-> na, noColor |-> nc,
      isFile |-> w.isFile, isCharDevice |-> w.isCharDevice, libNoColor |-> w.libNoColor] :
        o \in {<<>>, sN1}, c \in {<<>>, sA}, na \in BOOLEAN, nc \in BOOLEAN, w \in Writers}

RunInit ==
    /\ cfg \in Cfgs
    /\ rpc = "start"
    /\ networks = <<>>
    /\ fault = NoFault
    /\ rerr = Nil
    /\ sink = <<>>
    /\ calls = NoCalls
    /\ daemon = NoDaemon
    /\ tree = NoTree
    /\ heap = <<>>
    /\ TopoIdle
    /\ InfoIdle

\* client, err := docker.NewClient(), err == nil; the deferred Close is registered
NewClientOK ==
    /\ rpc = "start"
    /\ NewClient(Nil) = Nil
    /\ calls' = [calls EXCEPT !.NewClient = @ + 1]
    /\ rpc' = "client"
    /\ UNCHANGED <<daemon, tree, cfg, networks, fault, rerr, sink, heap, topoVars, infoVars>>

\* client, err := docker.NewClient(), err != nil: return before the defer
NewClientFail ==
    /\ rpc = "start"
    /\ \E e \in DaemonErrors :
          /\ fault' = [step |-> "NewClient", cause |-> e]
          /\ rerr' = Errorf("failed to create Docker client", NewClient(e))
    /\ calls' = [calls EXCEPT !.NewClient = @ + 1]
    /\ rpc' = "done"
    /\ UNCHANGED <<daemon, tree, cfg, networks, sink, heap, topoVars, infoVars>>

FetchNetworksOK ==
    /\ rpc = "client"
    /\ \E list \in DaemonNetworks :
          /\ daemon' = [daemon EXCEPT !.networks = list]
          /\ networks' = FetchNetworks(list, Nil).networks
    /\ calls' = [calls EXCEPT !.FetchNetworks = @ + 1]
    /\ rpc' = "networks"
    /\ UNCHANGED <<tree, cfg, fault, rerr, sink, heap, topoVars, infoVars>>

FetchNetworksGoesOn ==
    /\ rpc = "client"
    /\ \E list \in DaemonNetworks, e \in DaemonErrors :
          /\ daemon' = [daemon EXCEPT !.networks = list]
          /\ fault' = [step |-> "FetchNetworks", cause |-> e]
          /\ networks' = FetchNetworks(list, e).networks
          /\ rerr' = Errorf("failed to fetch networks", FetchNetworks(list, e).err)
    /\ calls' = [calls EXCEPT !.FetchNetworks = @ + 1]
    /\ rpc' = "networks"
    /\ UNCHANGED <<tree, cfg, sink, heap, topoVars, infoVars>>

\* FetchNetworks failed: return the wrapped error
FetchNetworksFail ==
    /\ rpc = "client"
    /\ \E list \in DaemonNetworks, e \in DaemonErrors :
          /\ daemon' = [daemon EXCEPT !.networks = list]
          /\ fault' = [step |-> "FetchNetworks", cause |-> e]
          /\ networks' = FetchNetworks(list, e).networks
          /\ rerr' = Errorf("failed to fetch networks", FetchNetworks(list, e).err)
    /\ calls' = [calls EXCEPT !.FetchNetworks = @ + 1]
    /\ rpc' = "return"
    /\ UNCHANGED <<tree, cfg, sink, heap, topoVars, infoVars>>

FetchContainersOK ==
    /\ rpc = "networks"
    /\ \E list \in DaemonContainers :
          /\ daemon' = [daemon EXCEPT !.containers = list]
          /\ input' = FetchContainers(list, Nil).containers
    /\ calls' = [calls EXCEPT !.FetchContainers = @ + 1]
    /\ rpc' = "containers"
    /\ UNCHANGED <<tree, cfg, networks, fault, rerr, sink, heap, tpc, containerMap,
                   networkToContainers, reach, mut, infoVars>>

\* FetchContainers failed: return the wrapped error
FetchContainersFail ==
    /\ rpc = "networks"
    /\ \E list \in DaemonContainers, e \in DaemonErrors :
          /\ daemon' = [daemon EXCEPT !.containers = list]
          /\ fault' = [step |-> "FetchContainers", cause |-> e]
          /\ input' = FetchContainers(list, e).containers
          /\ rerr' = Errorf("failed to fetch containers", FetchContainers(list, e).err)
    /\ calls' = [calls EXCEPT !.FetchContainers = @ + 1]
    /\ rpc' = "return"
    /\ UNCHANGED <<tree, cfg, networks, sink, heap, tpc, containerMap, networkToContainers,
                   reach, mut, infoVars>>

\* both builders, printVisualization on cmd.OutOrStdout(), return nil
Render ==
    /\ rpc = "containers"
    /\ \E o1, o2, o3 \in KeyOrders(input) :
       \E cm \in {BuildContainerMap(heap, input, o1)} :
       \E nm \in {BuildNetworkToContainersMap(cm.heap, input, o2, o3)} :
       \E keyOrder \in Perms(DOMAIN cm.m) :
          /\ heap' = nm.heap
          /\ containerMap' = cm.m
          /\ networkToContainers' = nm.m
          /\ sink' = sink \o printVisualization(nm.heap, cfg, networks, cm.m, nm.m, keyOrder)
    /\ calls' = [calls EXCEPT !.BuildContainerMap = @ + 1,
                              !.BuildNetworkToContainersMap = @ + 1,
                              !.printVisualization = @ + 1]
    /\ rerr' = Nil
    /\ rpc' = "return"
    /\ UNCHANGED <<daemon, tree, cfg, networks, fault, input, tpc, reach, mut, infoVars>>

\* a deferred function that hands Close's error back as the result
deferredCloseReported(result, closeErr) == IF closeErr # Nil THEN closeErr ELSE result

\* defer func() { _ = client.Close() }(): the result is the one being returned
deferredClose(result, closeErr) == result

\* a return after the defer statement runs the deferred Close, whose error
\* (Client.Close hands on the SDK's) is dropped
DeferredClose ==
    /\ rpc = "return"
    /\ \E e \in {Nil} \cup DaemonErrors :
          /\ daemon' = [daemon EXCEPT !.close = e]
          /\ rerr' = deferredClose(rerr, e)
    /\ calls' = [calls EXCEPT !.Close = @ + 1]
    /\ rpc' = "done"
    /\ UNCHANGED <<tree, cfg, networks, fault, sink, heap, topoVars, infoVars>>

RunNext ==
    \/ NewClientOK
    \/ NewClientFail
    \/ FetchNetworksOK
    \/ FetchNetworksFail
    \/ FetchContainersOK
    \/ FetchContainersFail
    \/ Render
    \/ DeferredClose

SpecRun == RunInit /\ [][RunNext]_vars

----------------------------------------------------------------------------
(* Claims on runVisualize *)

\* C7: when creating the client, fetching the networks or fetching the
\* containers fails, runVisualize returns an error that wraps the cause under
\* a message of its own, nothing has been written to the output, neither
\* builder and no renderer has been called, no call was made twice, a failed
\* client creation is followed by no fetch and a failed network fetch by no
\* container fetch; and runVisualize returns an error in no other case.
C7_FailFast ==
    /\ fault.step # "none" =>
          /\ rpc \in {"return", "done"}
          /\ rerr # Nil
          /\ rerr # fault.cause
          /\ ErrorsIs(rerr, fault.cause)
          /\ sink = <<>>
          /\ calls.BuildContainerMap = 0
          /\ calls.BuildNetworkToContainersMap = 0
          /\ calls.printVisualization = 0
          /\ calls.NewClient = 1
          /\ calls.FetchNetworks = (IF fault.step = "NewClient" THEN 0 ELSE 1)
          /\ calls.FetchContainers = (IF fault.step = "FetchContainers" THEN 1 ELSE 0)
    /\ rerr # Nil => fault.step # "none"

\* a run that ended in a failed network fetch
C7_Witness ==
    /\ rpc = "done"
    /\ fault.step = "FetchNetworks"
    /\ rerr = <<"failed to fetch networks", "failed to list Docker networks", "connection refused">>
    /\ calls.FetchNetworks = 1

----------------------------------------------------------------------------
(* Mutation of built entries: the builders as runVisualize calls them, then *)
(* AddAlias / AddNetwork on bucket entries and on container-map entries.    *)

\* mutations made after the build
MaxMuts == 2

\* a container on two networks with aliases p, q, r; one on three networks;
\* two containers that share n1
ShareInputs ==
    { <<[Names |-> <<slA>>,
         Networks |-> (sN1 :> Settings(<<sP, sQ, sR>>)) @@ (sN2 :> Settings(<<>>))]>>,
      <<[Names |-> <<slA>>,
         Networks |-> (sN1 :> NilSettings) @@ (sN2 :> NilSettings) @@ (sN3 :> NilSettings)]>>,
      <<[Names |-> <<slA>>, Networks |-> (sN1 :> Settings(<<sP>>)) @@ (sN2 :> NilSettings)],
        [Names |-> <<slB>>, Networks |-> (sN1 :> Settings(<<sQ>>))]>> }

ShareValues == {sV, sW}

\* every built entry as a reader sees it: its name, alias set and network set
EntryView(h, c) == [Name |-> c.Name, Aliases |-> AliasSet(h, c), Networks |-> NetworkSet(h, c)]

FullViews(h, cm, nm) ==
    [map |-> [k \in DOMAIN cm |-> EntryView(h, cm[k])],
     buckets |-> [n \in DOMAIN nm |-> [i \in 1..Len(nm[n]) |-> EntryView(h, nm[n][i])]]]

ShareInit ==
    /\ input \in ShareInputs
    /\ tpc = "input"
    /\ heap = <<>>
    /\ containerMap = <<>>
    /\ networkToContainers = <<>>
    /\ reach = NoReach
    /\ mut = NoMut
    /\ InfoIdle
    /\ RunIdle

\* networkToContainers[n][i].AddAlias(v) or .AddNetwork(v)
MutateBucketEntry ==
    /\ tpc = "built"
    /\ mut.n < MaxMuts
    /\ \E n \in DOMAIN networkToContainers, v \in ShareValues, field \in {"alias", "network"} :
       \E i \in 1..Len(networkToContainers[n]) :
       \E r \in {IF field = "alias" THEN AddAlias(heap, networkToContainers[n][i], v)
                 ELSE AddNetwork(heap, networkToContainers[n][i], v)} :
          /\ heap' = r.heap
          /\ networkToContainers' = [networkToContainers EXCEPT ![n][i] = r.c]
          /\ mut' = [n |-> mut.n + 1, target |-> <<"bucket", n, i>>,
                     pre |-> FullViews(heap, containerMap, networkToContainers)]
    /\ UNCHANGED <<input, tpc, containerMap, reach, infoVars, runVars>>

\* containerMap[k].AddAlias(v) or .AddNetwork(v)
MutateMapEntry ==
    /\ tpc = "built"
    /\ mut.n < MaxMuts
    /\ \E k \in DOMAIN containerMap, v \in ShareValues, field \in {"alias", "network"} :
       \E r \in {IF field = "alias" THEN AddAlias(heap, containerMap[k], v)
                 ELSE AddNetwork(heap, containerMap[k], v)} :
          /\ heap' = r.heap
          /\ containerMap' = [containerMap EXCEPT ![k] = r.c]
          /\ mut' = [n |-> mut.n + 1, target |-> <<"map", k>>,
                     pre |-> FullViews(heap, containerMap, networkToContainers)]
    /\ UNCHANGED <<input, tpc, networkToContainers, reach, infoVars, runVars>>

ShareNext == Build \/ MutateBucketEntry \/ MutateMapEntry

SpecShare == ShareInit /\ [][ShareNext]_vars

\* C11: independent copies: a mutation of the alias or network set of one
\* bucket entry, or of one container-map entry, leaves every other bucket
\* entry and every other container-map entry as it was.
C11_IndependentCopies ==
    mut.n > 0 =>
        LET now == FullViews(heap, containerMap, networkToContainers)
        IN  /\ \A k \in DOMAIN containerMap :
                   mut.target # <<"map", k>> => now.map[k] = mut.pre.map[k]
            /\ \A n \in DOMAIN networkToContainers :
                   \A i \in 1..Len(networkToContainers[n]) :
                       mut.target # <<"bucket", n, i>> =>
                           now.buckets[n][i] = mut.pre.buckets[n][i]

----------------------------------------------------------------------------
(* The renderers called on their own, on arguments written by hand as the  *)
(* package's tests write them: lists in any order, with repeated names and *)
(* repeated aliases.                                                       *)

\* longest container list handed to PrintNetworkTree
MaxList == 3

\* []string{...}: a backing array of exactly the listed elements
literalSlice(h, seq) ==
    IF seq = <<>> THEN [heap |-> h, s |-> EmptySlice]
    ELSE [heap |-> Append(h, seq),
          s    |-> [ptr |-> Len(h) + 1, len |-> Len(seq), cap |-> Len(seq)]]

\* models.ContainerInfo{Name: ..., Aliases: []string{...}, Networks: []string{...}}
literal(h, e) ==
    LET a == literalSlice(h, e.Aliases)
        n == literalSlice(a.heap, e.Networks)
    IN  [heap |-> n.heap, c |-> [Name |-> e.Name, Aliases |-> a.s, Networks |-> n.s]]

\* []models.ContainerInfo{...}
RECURSIVE literals(_, _, _)
literals(h, acc, es) ==
    IF es = <<>> THEN [heap |-> h, cs |-> acc]
    ELSE CHOOSE out \in {literals(r.heap, Append(acc, r.c), Tail(es)) :
                             r \in {literal(h, Head(es))}} : TRUE

TreeEntries ==
    { [Name |-> sB, Aliases |-> <<sQ, sP>>, Networks |-> <<sN1>>],
      [Name |-> sA, Aliases |-> <<>>, Networks |-> <<sN1>>],
      [Name |-> sC, Aliases |-> <<sR>>, Networks |-> <<sN1>>],
      [Name |-> sA, Aliases |-> <<sW, sV, sW>>, Networks |-> <<sN1>>] }

TreeLists == UNION {[1..n -> TreeEntries] : n \in 0..MaxList}

TreeNets == {[Name |-> sN1, Driver |-> sBridge], [Name |-> sN2, Driver |-> sHost]}

TreeInit ==
    /\ heap = <<>>
    /\ TopoIdle
    /\ InfoIdle
    /\ RunIdle

\* output.PrintNetworkTree(w, net, containers)
DoPrintNetworkTree ==
    /\ tree.op = "none"
    /\ \E net \in TreeNets, es \in TreeLists, w \in Writers, nc \in BOOLEAN :
       \E l \in {literals(heap, <<>>, es)} : \E m \in {PrintNetworkTreeMemory(l.heap, l.cs)} :
          /\ heap' = m.heap
          /\ tree' = [NoTree EXCEPT !.op = "PrintNetworkTree", !.net = net, !.given = es,
                                    !.containers = m.source, !.w = w, !.noColor = nc]
          /\ sink' = sink \o PrintNetworkTree(l.heap, w, nc, net, l.cs)
    /\ UNCHANGED <<daemon, cfg, rpc, networks, fault, rerr, calls, topoVars, infoVars>>

\* raw network lists in any order; Docker lets two networks share a name
VizNetworks ==
    { <<>>,
      <<[Name |-> sN2, Driver |-> sBridge], [Name |-> sN1, Driver |-> sHost]>>,
      <<[Name |-> sN1, Driver |-> sBridge], [Name |-> sN3, Driver |-> sBridge],
        [Name |-> sN1, Driver |-> sHost]>>,
      <<[Name |-> sN2, Driver |-> sHost]>> }

\* container lists of the daemon, and one on which nothing is named "a"
VizContainers ==
    DaemonContainers \cup
        { <<[Names |-> <<slC>>, Networks |-> (sN1 :> Settings(<<sR>>))],
            [Names |-> <<slB>>, Networks |-> (sN1 :> NilSettings) @@ (sN2 :> Settings(<<>>))]>> }

\* printVisualization(w, networks, containerMap, networkToContainers) on the
\* maps both builders make of one container list
DoPrintVisualization ==
    /\ tree.op = "none"
    /\ \E c \in Cfgs, nets \in VizNetworks, list \in VizContainers :
       \E o1, o2, o3 \in KeyOrders(list) :
       \E cm \in {BuildContainerMap(heap, list, o1)} :
       \E nm \in {BuildNetworkToContainersMap(cm.heap, list, o2, o3)} :
       \E keyOrder \in Perms(DOMAIN cm.m) :
          /\ cfg' = c
          /\ networks' = nets
          /\ input' = list
          /\ heap' = nm.heap
          /\ containerMap' = cm.m
          /\ networkToContainers' = nm.m
          /\ sink' = sink \o printVisualization(nm.heap, c, nets, cm.m, nm.m, keyOrder)
    /\ tree' = [NoTree EXCEPT !.op = "printVisualization"]
    /\ UNCHANGED <<daemon, rpc, fault, rerr, calls, tpc, reach, mut, infoVars>>

\* name lists of the buckets handed to PrintContainerTree: any order, with
\* repeats, with or without the container itself
CtNames == UNION {[1..n -> {sA, sB, sC}] : n \in 0..MaxList}

\* []models.ContainerInfo{{Name: ...}, ...}
bucketOf(names) ==
    [i \in 1..Len(names) |->
        [Name |-> names[i], Aliases |-> EmptySlice, Networks |-> EmptySlice]]

\* network maps: the nil map, and maps with buckets for n1 and n2 (never n3)
CtMaps ==
    {<<>>} \cup {(sN1 :> bucketOf(l)) @@ (sN2 :> bucketOf(<<sB, sA>>)) : l \in CtNames}

\* containers on no network, one network, and several in unsorted order
CtContainers ==
    { [Name |-> n, Aliases |-> <<>>, Networks |-> ns] :
        n \in {sA, sB}, ns \in {<<>>, <<sN1>>, <<sN2, sN1>>, <<sN3, sN1, sN2>>} }

\* output.PrintContainerTree(w, c, netMap)
DoPrintContainerTree ==
    /\ tree.op = "none"
    /\ \E e \in CtContainers, m \in CtMaps, w \in Writers, nc \in BOOLEAN :
       \E l \in {literal(heap, e)} :
          /\ heap' = PrintContainerTreeMemory(l.heap, l.c)
          /\ tree' = [NoTree EXCEPT !.op = "PrintContainerTree", !.c = l.c, !.given = e,
                                    !.netMap = m, !.w = w, !.noColor = nc]
          /\ sink' = sink \o PrintContainerTree(l.heap, w, nc, l.c, m)
    /\ UNCHANGED <<daemon, cfg, rpc, networks, fault, rerr, calls, topoVars, infoVars>>

\* removeAliasesFromContainers(containers)
DoRemoveAliases ==
    /\ tree.op = "none"
    /\ \E es \in TreeLists :
       \E l \in {literals(heap, <<>>, es)} : \E r \in {removeAliasesCall(l.cs)} :
          /\ heap' = l.heap
          /\ tree' = [NoTree EXCEPT !.op = "removeAliasesFromContainers", !.given = es,
                                    !.containers = r.source, !.result = r.result]
    /\ UNCHANGED <<daemon, cfg, rpc, networks, fault, rerr, sink, calls, topoVars, infoVars>>

\* containers handed to the sorted accessors: unsorted aliases, unsorted networks
SortedInputs ==
    TreeEntries \cup CtContainers
        \cup {[Name |-> sA, Aliases |-> <<sR, sP, sQ>>, Networks |-> <<sN2, sN3, sN1>>]}

\* c.SortedNetworks()
DoSortedNetworks ==
    /\ tree.op = "none"
    /\ \E e \in SortedInputs :
       \E l \in {literal(heap, e)} : \E r \in {SortedNetworksCall(l.heap, l.c)} :
          /\ heap' = r.heap
          /\ tree' = [NoTree EXCEPT !.op = "SortedNetworks", !.c = l.c, !.given = e,
                                    !.result = r.s]
    /\ UNCHANGED <<daemon, cfg, rpc, networks, fault, rerr, sink, calls, topoVars, infoVars>>

\* c.SortedAliases()
DoSortedAliases ==
    /\ tree.op = "none"
    /\ \E e \in SortedInputs :
       \E l \in {literal(heap, e)} : \E r \in {SortedAliasesCall(l.heap, l.c)} :
          /\ heap' = r.heap
          /\ tree' = [NoTree EXCEPT !.op = "SortedAliases", !.c = l.c, !.given = e,
                                    !.result = r.s]
    /\ UNCHANGED <<daemon, cfg, rpc, networks, fault, rerr, sink, calls, topoVars, infoVars>>

TreeNext ==
    \/ DoPrintNetworkTree
    \/ DoSortedNetworks
    \/ DoSortedAliases
    \/ DoRemoveAliases
    \/ DoPrintContainerTree
    \/ DoPrintVisualization

SpecTree == TreeInit /\ [][TreeNext]_vars

----------------------------------------------------------------------------
(* Claims on the renderers *)

\* the longest decoration: ESC, "[", the parameters, "m"
EscLen == Len(colorNetwork) + 3

\* whether the i-th byte of a text stands in a decoration: from an ESC up to
\* the first "m" after it
InEscape(text, i) ==
    \E e \in (i - EscLen + 1)..i :
        /\ e >= 1
        /\ text[e] = 27
        /\ \A j \in e..(i - 1) : text[j] # 109

\* the text without the escape sequences ESC ... m
Undecorate(text) ==
    LET kept == SelectSeq([i \in 1..Len(text) |-> i], LAMBDA i : ~InEscape(text, i))
    IN  [k \in 1..Len(kept) |-> text[kept[k]]]

\* the lines of a text in which every line ends with a newline
RECURSIVE SplitLines(_)
SplitLines(text) ==
    IF text = <<>> THEN <<>>
    ELSE LET nl == CHOOSE i \in 1..Len(text) : text[i] = 10 /\ \A j \in 1..(i - 1) : text[j] # 10
         IN  <<SubSeq(text, 1, nl - 1)>> \o SplitLines(SubSeq(text, nl + 1, Len(text)))

\* whether the renderer called on its own decorated its output
TreeStyled == NewColorWriter(tree.w, tree.noColor).enabled /\ ~tree.w.libNoColor

\* the lines written, as they read with the decoration taken off
TreeLines == SplitLines(Undecorate(sink))

\* the blocks of a section in which an empty line ends every block
RECURSIVE SplitBlocks(_)
SplitBlocks(lines) ==
    IF lines = <<>> THEN <<>>
    ELSE LET e == CHOOSE i \in 1..Len(lines) : lines[i] = <<>> /\ \A j \in 1..(i - 1) : lines[j] # <<>>
         IN  <<SubSeq(lines, 1, e - 1)>> \o SplitBlocks(SubSeq(lines, e + 1, Len(lines)))

\* a text without its final newline
Chomp(text) == SubSeq(text, 1, Len(text) - 1)

\* where the "=== Containers (Reachability) ===" line stands in printVisualization's output
VizSplit == CHOOSE i \in 1..Len(TreeLines) : TreeLines[i] = Chomp(txtContainersHeader)

\* the blocks between the two section headers, and those after the second
VizNetworkBlocks == SplitBlocks(SubSeq(TreeLines, 2, VizSplit - 1))
VizContainerBlocks == SplitBlocks(SubSeq(TreeLines, VizSplit + 1, Len(TreeLines)))

\* the networks of the raw list that pass the only-network filter, in list order
VizShownNetworks ==
    SelectSeq(networks, LAMBDA n : cfg.onlyNetwork = <<>> \/ n.Name = cfg.onlyNetwork)

\* "Network: <name> (<driver>)"
NetworkHeaderLine(net) == txtNetwork \o <<32>> \o net.Name \o <<32, 40>> \o net.Driver \o <<41>>

\* "└── (no containers)"
NoContainersLine == TreeEnd \o Chomp(txtNoContainers)

\* C12: PrintNetworkTree on an empty container list writes the header line
\* "Network: <name> (<driver>)", then the line "└── (no containers)", and
\* nothing else (byte for byte when undecorated); and printVisualization
\* renders every network it shows that has no bucket in the
\* network-to-containers map as exactly these two lines.
C12_EmptyNetwork ==
    /\ tree.op = "PrintNetworkTree" /\ tree.containers = <<>> =>
          /\ TreeLines = <<NetworkHeaderLine(tree.net), NoContainersLine>>
          /\ ~TreeStyled =>
                sink = NetworkHeaderLine(tree.net) \o <<10>> \o NoContainersLine \o <<10>>
    /\ tree.op = "printVisualization" =>
          /\ Len(VizNetworkBlocks) = Len(VizShownNetworks)
          /\ \A i \in 1..Len(VizShownNetworks) :
                VizShownNetworks[i].Name \notin DOMAIN networkToContainers =>
                    VizNetworkBlocks[i] = <<NetworkHeaderLine(VizShownNetworks[i]), NoContainersLine>>

\* printVisualization has rendered a network that has no bucket, next to one that has
C12_Witness ==
    /\ tree.op = "printVisualization"
    /\ \E i, j \in 1..Len(VizShownNetworks) :
          /\ VizShownNetworks[i].Name \notin DOMAIN networkToContainers
          /\ VizShownNetworks[j].Name \in DOMAIN networkToContainers
          /\ VizNetworkBlocks[i] = <<NetworkHeaderLine(VizShownNetworks[i]), NoContainersLine>>

\* a line "<BRANCH|END> <text>" at the left margin
IsTopLine(line) ==
    /\ Len(line) >= 10
    /\ SubSeq(line, 1, 9) \in {TreeBranch, TreeEnd}
    /\ line[10] = 32

\* the glyph and the text of such a line
GlyphOf(line) == SubSeq(line, 1, 9)
TextOf(line) == SubSeq(line, 11, Len(line))

\* the lines below the first line of a tree
TreeBody == Tail(TreeLines)

\* where the top lines stand in a body, in order
TopIdxOf(body) == SelectSeq([i \in 1..Len(body) |-> i], LAMBDA i : IsTopLine(body[i]))

\* the lines of a body between its k-th top line and the next one
GroupIn(body, idx, k) ==
    SubSeq(body, idx[k] + 1, IF k = Len(idx) THEN Len(body) ELSE idx[k + 1] - 1)

\* the same of the tree written
TopIdx == TopIdxOf(TreeBody)
GroupOf(k) == GroupIn(TreeBody, TopIdx, k)

\* C13: for a non-empty list PrintNetworkTree writes one container line per
\* container, in ascending name order whatever the order of the list, the
\* last one prefixed with "└──" and every other one with "├──".
C13_ContainerLines ==
    tree.op = "PrintNetworkTree" /\ tree.containers # <<>> =>
        \A body \in {TreeBody} : \A idx \in {TopIdxOf(body)} :
        \A names \in {[k \in 1..Len(idx) |-> TextOf(body[idx[k]])]} :
            /\ Len(idx) = Len(tree.containers)
            /\ idx[1] = 1
            /\ Ascending(names)
            /\ \A x \in Range(names) \cup Range(Names(tree.containers)) :
                   Count(names, x) = Count(Names(tree.containers), x)
            /\ \A k \in 1..Len(idx) :
                   GlyphOf(body[idx[k]]) = IF k = Len(idx) THEN TreeEnd ELSE TreeBranch

\* a list given in descending name order has been rendered
C13_Witness ==
    /\ tree.op = "PrintNetworkTree"
    /\ Names(tree.containers) = <<sC, sB, sA>>
    /\ [k \in 1..Len(TopIdx) |-> TextOf(TreeBody[TopIdx[k]])] = <<sA, sB, sC>>

\* a sequence in ascending order with the same elements, each as often
AscendingOf(seq) ==
    CHOOSE t \in {[i \in 1..Len(seq) |-> seq[p[i]]] : p \in Perms(1..Len(seq))} : Ascending(t)

\* "<indent><BRANCH|END> alias: <alias>" for each alias in ascending order
AliasLines(aliases, indent) ==
    LET sorted == AscendingOf(aliases)
    IN  [j \in 1..Len(sorted) |->
            indent \o (IF j = Len(sorted) THEN TreeEnd ELSE TreeBranch)
                \o <<32>> \o txtAlias \o <<32>> \o sorted[j]]

\* C14: directly after each container line PrintNetworkTree writes that
\* container's alias lines and no other: one "<BRANCH|END> alias: <alias>"
\* per alias in ascending order, END on the last alias only, behind "│   "
\* under a container that is not the last and behind four spaces under the
\* last; a container without aliases is followed by no alias line.
C14_AliasLines ==
    tree.op = "PrintNetworkTree" /\ tree.containers # <<>> =>
        \A body \in {TreeBody} : \A idx \in {TopIdxOf(body)} :
        \E p \in Perms(1..Len(tree.containers)) :
            /\ Len(idx) = Len(tree.containers)
            /\ \A k \in 1..Len(idx) :
                  LET c == tree.containers[p[k]]
                      indent == IF k = Len(idx) THEN TreeSpace ELSE TreeVertical
                  IN  /\ TextOf(body[idx[k]]) = c.Name
                      /\ GroupIn(body, idx, k) = AliasLines(Elems(heap, c.Aliases), indent)

\* rendered: a container with unsorted aliases that is not the last, a
\* container without aliases, and a last container with a repeated alias
C14_Witness ==
    /\ tree.op = "PrintNetworkTree"
    /\ Len(tree.containers) = 3
    /\ Len(TopIdx) = 3
    /\ GroupOf(1) = <<>>
    /\ Len(GroupOf(2)) = 3
    /\ Len(GroupOf(3)) = 2
    /\ SubSeq(GroupOf(2)[1], 1, 6) = TreeVertical
    /\ SubSeq(GroupOf(3)[2], 1, 4) = TreeSpace

\* "Container: <name>"
ContainerHeaderLine(name) == txtContainer \o <<32>> \o name

\* "<indent>└── connects to:"
ConnectsLine(indent) == indent \o TreeEnd \o <<32>> \o txtConnectsTo

\* the container's networks as PrintContainerTree was given them
TreeNetworks == Elems(heap, tree.c.Networks)

\* whether a line ends with the words "connects to:"
EndsWithConnectsTo(line) ==
    /\ Len(line) >= Len(txtConnectsTo)
    /\ SubSeq(line, Len(line) - Len(txtConnectsTo) + 1, Len(line)) = txtConnectsTo

\* C15: PrintContainerTree writes the header "Container: <name>", then for
\* each network of the container in ascending order a line
\* "<BRANCH|END> Network: <network>" (END for the last network only), each
\* directly followed by exactly one line "<indent>└── connects to:", behind
\* "│   " under a network that is not the last and behind four spaces under
\* the last; a container without networks gets the header line alone.
C15_ContainerTree ==
    tree.op = "PrintContainerTree" =>
        \A lines \in {TreeLines} : \A idx \in {TopIdxOf(Tail(lines))} :
        \A nets \in {AscendingOf(TreeNetworks)} :
            /\ lines[1] = ContainerHeaderLine(tree.c.Name)
            /\ Len(idx) = Len(nets)
            /\ nets = <<>> => Len(lines) = 1
            /\ nets # <<>> => idx[1] = 1
            /\ \A k \in 1..Len(idx) : \A g \in {GroupIn(Tail(lines), idx, k)} :
                  /\ GlyphOf(Tail(lines)[idx[k]]) = IF k = Len(idx) THEN TreeEnd ELSE TreeBranch
                  /\ TextOf(Tail(lines)[idx[k]]) = txtNetwork \o <<32>> \o nets[k]
                  /\ g # <<>>
                  /\ g[1] = ConnectsLine(IF k = Len(idx) THEN TreeSpace ELSE TreeVertical)
                  /\ \A j \in 2..Len(g) : ~EndsWithConnectsTo(g[j])

\* a container on three networks given out of order has been rendered, and
\* one without networks
C15_Witness ==
    /\ tree.op = "PrintContainerTree"
    /\ TreeNetworks = <<sN3, sN1, sN2>>
    /\ [k \in 1..Len(TopIdx) |-> TextOf(TreeBody[TopIdx[k]])]
           = <<txtNetwork \o <<32>> \o sN1, txtNetwork \o <<32>> \o sN2, txtNetwork \o <<32>> \o sN3>>
    /\ GroupOf(1)[1] = ConnectsLine(TreeVertical)
    /\ GroupOf(3)[1] = ConnectsLine(TreeSpace)

\* "(none)"
NoneText == Tail(Chomp(txtNone))

\* whether a line is spaces followed by "(none)"
IsBareNone(line) ==
    /\ Len(line) >= Len(NoneText)
    /\ SubSeq(line, Len(line) - Len(NoneText) + 1, Len(line)) = NoneText
    /\ \A i \in 1..(Len(line) - Len(NoneText)) : line[i] = 32

\* the indent under the k-th of n networks
IndentAt(k, n) == IF k = n THEN TreeSpace ELSE TreeVertical

\* C16 as stated: under a network for which ReachableContainers returns
\* nothing, PrintContainerTree writes below "connects to:" one line that
\* holds, behind the network's indent and four more spaces, the bare text
\* "(none)" without a tree glyph.
C16_BareNone ==
    tree.op = "PrintContainerTree" =>
        \A lines \in {TreeLines} : \A idx \in {TopIdxOf(Tail(lines))} :
        \A nets \in {AscendingOf(TreeNetworks)} :
        \A k \in 1..Len(idx) : \A g \in {GroupIn(Tail(lines), idx, k)} :
            ReachableContainers(tree.c.Name, nets[k], tree.netMap) = <<>> =>
                /\ Len(g) = 2
                /\ SubSeq(g[2], 1, Len(IndentAt(k, Len(idx)))) = IndentAt(k, Len(idx))
                /\ IsBareNone(SubSeq(g[2], Len(IndentAt(k, Len(idx))) + 1, Len(g[2])))
                /\ Len(g[2]) >= Len(IndentAt(k, Len(idx))) + 4 + Len(NoneText)

\* C16, amended: under a network for which ReachableContainers returns
\* nothing, PrintContainerTree writes below "connects to:" exactly one line:
\* the network's indent, four more spaces, the END glyph and " (none)".
C16_NoneLine ==
    tree.op = "PrintContainerTree" =>
        \A lines \in {TreeLines} : \A idx \in {TopIdxOf(Tail(lines))} :
        \A nets \in {AscendingOf(TreeNetworks)} :
        \A k \in 1..Len(idx) : \A g \in {GroupIn(Tail(lines), idx, k)} :
            ReachableContainers(tree.c.Name, nets[k], tree.netMap) = <<>> =>
                g = << ConnectsLine(IndentAt(k, Len(idx))),
                       IndentAt(k, Len(idx)) \o TreeSpace \o TreeEnd \o Chomp(txtNone) >>

\* a container has been rendered whose first network reaches nobody and
\* whose last network reaches nobody either, with one in between that does
C16_Witness ==
    /\ tree.op = "PrintContainerTree"
    /\ TreeNetworks = <<sN3, sN1, sN2>>
    /\ ReachableContainers(tree.c.Name, sN1, tree.netMap) = <<>>
    /\ ReachableContainers(tree.c.Name, sN2, tree.netMap) # <<>>
    /\ GroupOf(1)[2] = TreeVertical \o TreeSpace \o TreeEnd \o Chomp(txtNone)
    /\ GroupOf(3)[2] = TreeSpace \o TreeSpace \o TreeEnd \o Chomp(txtNone)

\* the names in a network's bucket other than the container's own, in
\* ascending order, each as often as the bucket holds it
OtherNames(self, network, netMap) ==
    AscendingOf(SelectSeq(Names(Lookup(netMap, network)), LAMBDA n : n # self))

\* whether a line ends with "(none)"
EndsWithNone(line) ==
    /\ Len(line) >= Len(NoneText)
    /\ SubSeq(line, Len(line) - Len(NoneText) + 1, Len(line)) = NoneText

\* C17: for each network of the container, when the network's bucket holds
\* no entry but the container's own (or the network is no key of the map)
\* PrintContainerTree writes exactly one "(none)" line under "connects to:";
\* otherwise it writes exactly one line per other entry of the bucket, in
\* ascending name order, the last behind "└──" and every other behind
\* "├──", and none of them names the container itself.
C17_ConnectsTo ==
    tree.op = "PrintContainerTree" =>
        \A lines \in {TreeLines} : \A idx \in {TopIdxOf(Tail(lines))} :
        \A nets \in {AscendingOf(TreeNetworks)} :
        \A k \in 1..Len(idx) : \A g \in {GroupIn(Tail(lines), idx, k)} :
        \A others \in {OtherNames(tree.c.Name, nets[k], tree.netMap)} :
            /\ others = <<>> =>
                  /\ Len(g) = 2
                  /\ EndsWithNone(g[2])
                  /\ ~EndsWithNone(g[1])
            /\ others # <<>> =>
                  /\ Len(g) = 1 + Len(others)
                  /\ \A j \in 1..Len(others) :
                        /\ g[j + 1] = IndentAt(k, Len(idx)) \o TreeSpace
                                         \o (IF j = Len(others) THEN TreeEnd ELSE TreeBranch)
                                         \o <<32>> \o others[j]
                        /\ others[j] # tree.c.Name
                        /\ ~EndsWithNone(g[j + 1])
                  /\ Ascending(others)

\* a container has been rendered on three networks: one that is no key of
\* the map, one whose bucket lists the container between two others given
\* out of order, and one whose bucket holds the container and one other
C17_Witness ==
    /\ tree.op = "PrintContainerTree"
    /\ TreeNetworks = <<sN3, sN1, sN2>>
    /\ tree.c.Name = sA
    /\ tree.netMap # <<>>
    /\ Names(tree.netMap[sN1]) = <<sC, sA, sB>>
    /\ GroupOf(1) = << ConnectsLine(TreeVertical),
                       TreeVertical \o TreeSpace \o TreeBranch \o <<32>> \o sB,
                       TreeVertical \o TreeSpace \o TreeEnd \o <<32>> \o sC >>
    /\ Len(GroupOf(2)) = 2
    /\ Len(GroupOf(3)) = 2
    /\ EndsWithNone(GroupOf(3)[2])

\* the writer and the no-color setting of the rendering made
TreeWriter == IF tree.op = "printVisualization" THEN cfg ELSE tree.w
TreeNoColor == IF tree.op = "printVisualization" THEN cfg.noColor ELSE tree.noColor

\* whether that rendering was made with styling enabled
Decorated == NewColorWriter(TreeWriter, TreeNoColor).enabled /\ ~TreeWriter.libNoColor

\* what the same call writes for the same arguments with styling disabled
Unstyled ==
    CASE tree.op = "PrintNetworkTree" ->
            PrintNetworkTree(heap, tree.w, TRUE, tree.net, tree.containers)
      [] tree.op = "PrintContainerTree" ->
            PrintContainerTree(heap, tree.w, TRUE, tree.c, tree.netMap)
      [] tree.op = "printVisualization" ->
            printVisualization(heap, [cfg EXCEPT !.noColor = TRUE], networks, containerMap,
                               networkToContainers,
                               CHOOSE p \in Perms(DOMAIN containerMap) : TRUE)

\* texts the renderers style: glyphs, labels, names, the empty text
StyledTexts ==
    {TreeBranch, TreeEnd, TreeVertical, TreeSpace, txtNetwork, txtContainer, txtAlias,
     txtConnectsTo, sA, sN1, sP, <<>>}

\* C18: a rendering made with styling enabled, with the decoration around
\* each styled token taken off, equals byte for byte the rendering of the
\* same arguments with styling disabled; a rendering made with styling
\* disabled equals it as written; and a ColorWriter with styling disabled
\* returns from
\* Network, Container, Alias, Label and Tree the text it was given.
C18_StylingKeepsStructure ==
    tree.op \in {"PrintNetworkTree", "PrintContainerTree", "printVisualization"} =>
        \A plain \in {Unstyled} :
            /\ Decorated => Undecorate(sink) = plain
            /\ ~Decorated => sink = plain
            /\ \A cw \in {NewColorWriter(TreeWriter, TreeNoColor),
                           [writer |-> TreeWriter, enabled |-> FALSE]} :
                  ~cw.enabled =>
                      \A t \in StyledTexts :
                          /\ Network(cw, t) = t
                          /\ Container(cw, t) = t
                          /\ Alias(cw, t) = t
                          /\ Label(cw, t) = t
                          /\ Tree(cw, t) = t

\* a container tree with a reachable container and a "(none)" line has
\* been written decorated to a terminal
C18_Witness ==
    /\ tree.op = "PrintContainerTree"
    /\ Decorated
    /\ \E i \in 1..Len(sink) : sink[i] = 27
    /\ Len(TreeLines) = 7
    /\ Undecorate(sink) = Unstyled

\* whether a line begins with the given text
StartsWith(line, text) == Len(line) >= Len(text) /\ SubSeq(line, 1, Len(text)) = text

\* the first lines of the blocks of a section
FirstLines(blocks) == [i \in 1..Len(blocks) |-> blocks[i][1]]

\* C19: with a non-empty only-network filter the Networks section of
\* printVisualization holds one block per network of the raw list whose
\* name equals the filter, in list order, and no other; with an empty
\* filter it holds one block per network of the raw list.
C19_NetworkFilter ==
    tree.op = "printVisualization" =>
        \A blocks \in {VizNetworkBlocks} :
            LET shown == SelectSeq(networks, LAMBDA n : n.Name = cfg.onlyNetwork)
                want == IF cfg.onlyNetwork = <<>> THEN networks ELSE shown
            IN  /\ FirstLines(blocks) = [i \in 1..Len(want) |-> NetworkHeaderLine(want[i])]
                /\ \A i \in 1..Len(blocks) : \A j \in 2..Len(blocks[i]) :
                      ~StartsWith(blocks[i][j], txtNetwork)

\* with the filter "n1", a raw list that names n1 twice around n3 has been
\* rendered as two blocks
C19_Witness ==
    /\ tree.op = "printVisualization"
    /\ cfg.onlyNetwork = sN1
    /\ Len(networks) = 3
    /\ FirstLines(VizNetworkBlocks)
          = << NetworkHeaderLine([Name |-> sN1, Driver |-> sBridge]),
               NetworkHeaderLine([Name |-> sN1, Driver |-> sHost]) >>

\* C20: the Containers section of printVisualization holds its blocks in
\* ascending container-name order: with a non-empty container filter one
\* "Container:" block for the container-map entry of that name, or none
\* when there is no such entry; with an empty filter one block per entry.
C20_ContainerFilter ==
    tree.op = "printVisualization" =>
        \A blocks \in {VizContainerBlocks} :
        \A keys \in {AscendingOf(CHOOSE p \in Perms(DOMAIN containerMap) : TRUE)} :
            LET want == IF cfg.container = <<>> THEN keys
                        ELSE SelectSeq(keys, LAMBDA k : k = cfg.container)
            IN  /\ FirstLines(blocks) =
                      [i \in 1..Len(want) |-> ContainerHeaderLine(containerMap[want[i]].Name)]
                /\ \A i \in 1..Len(want) : containerMap[want[i]].Name = want[i]
                /\ cfg.container # <<>> => Len(blocks) <= 1
                /\ \A i \in 1..Len(blocks) : \A j \in 2..Len(blocks[i]) :
                      ~StartsWith(blocks[i][j], txtContainer)

\* three containers listed as c, a, b have been rendered without a filter,
\* and with the filter "a" a map that has no such entry
C20_Witness ==
    /\ tree.op = "printVisualization"
    /\ \/ /\ cfg.container = <<>>
          /\ Len(input) = 3
          /\ FirstLines(VizContainerBlocks)
                = <<ContainerHeaderLine(sA), ContainerHeaderLine(sB), ContainerHeaderLine(sC)>>
       \/ /\ cfg.container = sA
          /\ DOMAIN containerMap = {sB, sC}
          /\ VizContainerBlocks = <<>>

\* whether a line holds the given text somewhere
Contains(line, text) ==
    \E i \in 1..(Len(line) - Len(text) + 1) : SubSeq(line, i, i + Len(text) - 1) = text

\* C21: removeAliasesFromContainers returns as many entries as it was
\* given, in the same order, each with the name and the networks of the
\* entry it was made from and with no alias; the slice it was given and the
\* aliases of its entries are afterwards what they were; and with the
\* no-aliases flag set printVisualization writes no "alias:" line.
C21_AliasStripping ==
    /\ tree.op = "removeAliasesFromContainers" =>
          /\ Len(tree.result) = Len(tree.given)
          /\ Len(tree.containers) = Len(tree.given)
          /\ \A i \in 1..Len(tree.given) :
                /\ tree.result[i].Name = tree.given[i].Name
                /\ Elems(heap, tree.result[i].Networks) = tree.given[i].Networks
                /\ Elems(heap, tree.result[i].Aliases) = <<>>
                /\ tree.containers[i].Name = tree.given[i].Name
                /\ Elems(heap, tree.containers[i].Networks) = tree.given[i].Networks
                /\ Elems(heap, tree.containers[i].Aliases) = tree.given[i].Aliases
    /\ tree.op = "printVisualization" /\ cfg.noAliases =>
          \A lines \in {TreeLines} : \A i \in 1..Len(lines) : ~Contains(lines[i], txtAlias)

\* the aliases have been taken off a list of three entries, the second of
\* which has none and the third three
C21_Witness ==
    /\ tree.op = "removeAliasesFromContainers"
    /\ Len(tree.given) = 3
    /\ tree.given[1].Aliases = <<sQ, sP>>
    /\ tree.given[2].Aliases = <<>>
    /\ tree.given[3].Aliases = <<sW, sV, sW>>
    /\ Elems(heap, tree.containers[3].Aliases) = <<sW, sV, sW>>
    /\ Elems(heap, tree.result[3].Aliases) = <<>>

\* the first name entry without one leading "/", the empty name when there is no entry
FirstNameUnslashed(names) ==
    IF names = <<>> THEN <<>>
    ELSE IF names[1] # <<>> /\ names[1][1] = Slash
         THEN SubSeq(names[1], 2, Len(names[1]))
         ELSE names[1]

\* C22: the container map is keyed by the resolved names of the raw
\* records, the resolved name being the first name entry with one leading
\* "/" removed if it has one (later entries ignored, a name without the
\* prefix kept, "//a" giving "/a") and the empty name for a record without
\* name entries; every entry carries its key as name; a record without
\* name entries gives an entry keyed by the empty name which, no later
\* record resolving to the empty name, carries the networks and aliases the
\* record declared.
C22_NameResolution ==
    Built =>
        /\ DOMAIN containerMap = {FirstNameUnslashed(input[i].Names) : i \in 1..Len(input)}
        /\ \A k \in DOMAIN containerMap : containerMap[k].Name = k
        /\ \A i \in 1..Len(input) :
              input[i].Names = <<>> =>
                  /\ <<>> \in DOMAIN containerMap
                  /\ (\A j \in (i + 1)..Len(input) : FirstNameUnslashed(input[j].Names) # <<>>) =>
                        /\ NetworkSet(heap, containerMap[<<>>]) = DeclaredNetworks(input[i])
                        /\ AliasSet(heap, containerMap[<<>>]) = DeclaredAliases(input[i])

\* a record without names that declares a network, and a record named
\* "/b" and then "/a", have been built into the map
C22_Witness ==
    /\ Built
    /\ Len(input) = 2
    /\ input[1].Names = <<>>
    /\ DeclaredNetworks(input[1]) # {}
    /\ input[2].Names = <<slB, slA>>
    /\ DOMAIN containerMap = {<<>>, sB}
    /\ NetworkSet(heap, containerMap[<<>>]) = DeclaredNetworks(input[1])

\* whether a sequence holds no element twice
NoRepeat(seq) == \A i, j \in 1..Len(seq) : seq[i] = seq[j] => i = j

\* whether a ContainerInfo holds exactly what a raw record declares, nothing twice
Carries(h, c, rec) ==
    /\ NoRepeat(Elems(h, c.Networks))
    /\ NoRepeat(Elems(h, c.Aliases))
    /\ NetworkSet(h, c) = DeclaredNetworks(rec)
    /\ AliasSet(h, c) = DeclaredAliases(rec)

\* C23: for a raw record whose resolved name no other record shares, the
\* ContainerInfo in BuildContainerMap's result, and the one
\* ConvertToContainerInfo makes of the record whatever the order of the
\* range over its memberships, has as networks exactly the record's
\* membership names and as aliases exactly the union of the alias lists of
\* all its memberships, nothing twice; and the record's entry in the bucket
\* of each of its networks carries the aliases of all its networks.
C23_AllAliases ==
    Built =>
        \A i \in 1..Len(input) :
            UniqueName(i) =>
                /\ Carries(heap, containerMap[FirstNameUnslashed(input[i].Names)], input[i])
                /\ \A ord \in Perms(DOMAIN input[i].Networks) :
                   \A r \in {ConvertToContainerInfo(heap, input[i], ord)} :
                      /\ r.c.Name = FirstNameUnslashed(input[i].Names)
                      /\ Carries(r.heap, r.c, input[i])
                /\ \A n \in DeclaredNetworks(input[i]) :
                      /\ n \in DOMAIN networkToContainers
                      /\ Count(Names(networkToContainers[n]), FirstNameUnslashed(input[i].Names)) = 1
                      /\ \A k \in 1..Len(networkToContainers[n]) :
                            networkToContainers[n][k].Name = FirstNameUnslashed(input[i].Names) =>
                                Carries(heap, networkToContainers[n][k], input[i])

\* a record on n1 with alias p and on n2 with aliases q and r has been
\* built: its entry in bucket n1 carries p, q and r
C23_Witness ==
    /\ Built
    /\ \E i \in 1..Len(input) :
          /\ UniqueName(i)
          /\ DeclaredNetworks(input[i]) = {sN1, sN2}
          /\ \E k \in 1..Len(networkToContainers[sN1]) :
                /\ networkToContainers[sN1][k].Name = Resolved(i)
                /\ AliasSet(heap, networkToContainers[sN1][k]) = {sP, sQ, sR}

\* whether two sequences hold the same elements, each as often
SameElements(a, b) == \A x \in Range(a) \cup Range(b) : Count(a, x) = Count(b, x)

\* whether a ContainerInfo reads in memory as it was written
AsGiven(h, c, e) ==
    /\ c.Name = e.Name
    /\ Elems(h, c.Aliases) = e.Aliases
    /\ Elems(h, c.Networks) = e.Networks

\* C24: after PrintNetworkTree the caller's container list holds the
\* entries it held, in the order it held them, each with its aliases and
\* networks in their order; after PrintContainerTree the container's
\* networks (and aliases) stand in the order they stood in; SortedNetworks
\* and SortedAliases return a slice of their own, in ascending order, with
\* the elements of the source, each as often, and leave the source as it was.
C24_InputsUntouched ==
    /\ tree.op = "PrintNetworkTree" =>
          /\ Len(tree.containers) = Len(tree.given)
          /\ \A i \in 1..Len(tree.given) : AsGiven(heap, tree.containers[i], tree.given[i])
    /\ tree.op = "PrintContainerTree" => AsGiven(heap, tree.c, tree.given)
    /\ tree.op = "SortedNetworks" =>
          /\ AsGiven(heap, tree.c, tree.given)
          /\ Ascending(Elems(heap, tree.result))
          /\ SameElements(Elems(heap, tree.result), tree.given.Networks)
          /\ tree.given.Networks # <<>> => tree.result.ptr # tree.c.Networks.ptr
    /\ tree.op = "SortedAliases" =>
          /\ AsGiven(heap, tree.c, tree.given)
          /\ Ascending(Elems(heap, tree.result))
          /\ SameElements(Elems(heap, tree.result), tree.given.Aliases)
          /\ tree.given.Aliases # <<>> => tree.result.ptr # tree.c.Aliases.ptr

\* SortedAliases has returned p, q, r for a container whose aliases still
\* read r, p, q
C24_Witness ==
    /\ tree.op = "SortedAliases"
    /\ Elems(heap, tree.c.Aliases) = <<sR, sP, sQ>>
    /\ Elems(heap, tree.result) = <<sP, sQ, sR>>

\* whether a section is a run of blocks, each a line beginning with `first`,
\* then lines that are not blank and do not begin with it, then one blank line
IsBlockRun(sec, first) ==
    /\ sec # <<>> => sec[Len(sec)] = <<>>
    /\ \A i \in 1..Len(sec) :
          LET opens == i = 1 \/ sec[i - 1] = <<>>
          IN  /\ opens => StartsWith(sec[i], first)
              /\ ~opens => ~StartsWith(sec[i], first)

\* C25: what printVisualization writes begins with the line
\* "=== Networks ===", holds the line "=== Containers (Reachability) ==="
\* once, between the two nothing but network blocks and after the second
\* nothing but container blocks, every block followed by one blank line;
\* both header lines are there when there is no network and no container,
\* and no "Container:" block stands before a "Network:" block.
C25_SectionOrder ==
    tree.op = "printVisualization" =>
        \A lines \in {TreeLines} :
            /\ lines # <<>> /\ lines[1] = Chomp(txtNetworksHeader)
            /\ Cardinality({i \in 1..Len(lines) : lines[i] = Chomp(txtNetworksHeader)}) = 1
            /\ Cardinality({i \in 1..Len(lines) : lines[i] = Chomp(txtContainersHeader)}) = 1
            /\ \A s \in {i \in 1..Len(lines) : lines[i] = Chomp(txtContainersHeader)} :
                  /\ IsBlockRun(SubSeq(lines, 2, s - 1), txtNetwork)
                  /\ IsBlockRun(SubSeq(lines, s + 1, Len(lines)), txtContainer)
                  /\ \A i \in 1..(s - 1) : ~StartsWith(lines[i], txtContainer)
                  /\ \A i \in (s + 1)..Len(lines) : ~StartsWith(lines[i], txtNetwork)
            /\ (networks = <<>> /\ DOMAIN containerMap = {}) =>
                  sink = txtNetworksHeader \o txtContainersHeader

\* two network blocks and then two container blocks have been written
C25_Witness ==
    /\ tree.op = "printVisualization"
    /\ Len(VizNetworkBlocks) = 2
    /\ Len(VizContainerBlocks) = 2
    /\ VizSplit > 5

\* the names of a raw network list, and the resolved names of a raw container list
NetworkNames(list) == [i \in 1..Len(list) |-> list[i].Name]
ResolvedNames(list) == [i \in 1..Len(list) |-> FirstNameUnslashed(list[i].Names)]

\* C26: in a run of the visualize command FetchNetworks hands back the
\* daemon's networks in ascending name order, and FetchContainers the
\* daemon's containers in ascending order of resolved name, whatever order
\* the daemon gave them in; a failed fetch hands back the nil list and an
\* error that wraps the daemon's; and the network blocks written stand in
\* ascending network-name order.
C26_SortedNetworks ==
    /\ (calls.FetchNetworks = 1 /\ fault.step # "FetchNetworks") =>
          /\ Ascending(NetworkNames(networks))
          /\ SameElements(networks, daemon.networks)
    /\ (calls.FetchContainers = 1 /\ fault.step # "FetchContainers") =>
          /\ Ascending(ResolvedNames(input))
          /\ SameElements(input, daemon.containers)
    /\ fault.step = "FetchNetworks" =>
          /\ networks = <<>>
          /\ Tail(rerr) # fault.cause /\ ErrorsIs(Tail(rerr), fault.cause)
    /\ fault.step = "FetchContainers" =>
          /\ input = <<>>
          /\ Tail(rerr) # fault.cause /\ ErrorsIs(Tail(rerr), fault.cause)
    /\ (rpc = "done" /\ fault.step = "none") =>
          \A blocks \in {VizNetworkBlocks} :
              /\ FirstLines(blocks) =
                    [i \in 1..Len(VizShownNetworks) |-> NetworkHeaderLine(VizShownNetworks[i])]
              /\ Ascending(NetworkNames(VizShownNetworks))
              /\ cfg.onlyNetwork = <<>> => Len(blocks) = Len(daemon.networks)

\* the daemon gave n3 before n1 and the run wrote the block of n1 before
\* that of n3
C26_Witness ==
    /\ rpc = "done" /\ fault.step = "none"
    /\ NetworkNames(daemon.networks) = <<sN3, sN1>>
    /\ FirstLines(VizNetworkBlocks)
          = << NetworkHeaderLine([Name |-> sN1, Driver |-> sBridge]),
               NetworkHeaderLine([Name |-> sN3, Driver |-> sBridge]) >>

\* whether the resolved names of the input are pairwise distinct
DistinctNames == \A i \in 1..Len(input) : UniqueName(i)

\* C27: over the map BuildNetworkToContainersMap makes of records with
\* pairwise distinct resolved names, for every network N and records A and
\* B: B's name is in ReachableContainers(A, N, map) exactly when A's name is
\* in ReachableContainers(B, N, map), and exactly when A and B are different
\* records that both declare N.
C27_Symmetric ==
    (Built /\ DistinctNames) =>
        \A n \in {sN1, sN2, sN3} : \A i, j \in 1..Len(input) :
            LET a == FirstNameUnslashed(input[i].Names)
                b == FirstNameUnslashed(input[j].Names)
                ab == b \in Range(ReachableContainers(a, n, networkToContainers))
                ba == a \in Range(ReachableContainers(b, n, networkToContainers))
            IN  /\ ab <=> ba
                /\ ab <=> (i # j /\ n \in DeclaredNetworks(input[i])
                                 /\ n \in DeclaredNetworks(input[j]))

\* C27 (as the code has it): over the same maps, B's name is in
\* ReachableContainers(A, N, map) exactly when B is a record other than A
\* that declares N, whether or not A declares N; between two records that
\* both declare N the relation is symmetric.
C27_MemberSymmetric ==
    (Built /\ DistinctNames) =>
        \A n \in {sN1, sN2, sN3} :
        \A name \in {[i \in 1..Len(input) |-> FirstNameUnslashed(input[i].Names)]} :
        \A from \in {[i \in 1..Len(input) |->
                         Range(ReachableContainers(name[i], n, networkToContainers))]} :
            \A i, j \in 1..Len(input) :
                /\ name[j] \in from[i] <=> (i # j /\ n \in DeclaredNetworks(input[j]))
                /\ (n \in DeclaredNetworks(input[i]) /\ n \in DeclaredNetworks(input[j]))
                       => (name[j] \in from[i] <=> name[i] \in from[j])

\* two records of different names share n2, one of them is on n1 as well:
\* each reaches the other over n2, the one on n1 reaches nobody over n1 and
\* is listed for the other, which is not on n1
C27_Witness ==
    /\ Built /\ DistinctNames
    /\ Len(input) = 2
    /\ DeclaredNetworks(input[1]) = {sN1, sN2}
    /\ DeclaredNetworks(input[2]) = {sN2}
    /\ ReachableContainers(Resolved(1), sN2, networkToContainers) = <<Resolved(2)>>
    /\ ReachableContainers(Resolved(2), sN2, networkToContainers) = <<Resolved(1)>>
    /\ ReachableContainers(Resolved(1), sN1, networkToContainers) = <<>>
    /\ ReachableContainers(Resolved(2), sN1, networkToContainers) = <<Resolved(1)>>

\* C28: what PrintNetworkTree writes depends only on which entries the list
\* holds, not on their order: for every permutation of the list it was
\* given, lists with two entries of one name and different aliases
\* included, the written text is the same.
C28_OrderIndependent ==
    tree.op = "PrintNetworkTree" =>
        \A p \in Perms(1..Len(tree.given)) :
            \A l \in {literals(<<>>, <<>>, Permuted(tree.given, p))} :
                PrintNetworkTree(l.heap, tree.w, tree.noColor, tree.net, l.cs) = sink

\* the error runVisualize returns on the path it took
ResultOf(f) ==
    IF f.step = "none" THEN Nil
    ELSE Errorf(CASE f.step = "NewClient" -> "failed to create Docker client"
                  [] f.step = "FetchNetworks" -> "failed to fetch networks"
                  [] f.step = "FetchContainers" -> "failed to fetch containers",
                CASE f.step = "NewClient" -> NewClient(f.cause)
                  [] f.step = "FetchNetworks" -> FetchNetworks(<<>>, f.cause).err
                  [] f.step = "FetchContainers" -> FetchContainers(<<>>, f.cause).err)

\* C29: once NewClient has succeeded, Close is called exactly once before
\* runVisualize has returned, on the path of a failed network fetch, of a
\* failed container fetch and of a finished rendering alike, and not at all
\* when NewClient failed; Close is never called while a fetch or the
\* rendering is still to come, it is the last call of the run; and what
\* Close returns changes neither the returned error nor the output.
C29_CloseOnce ==
    /\ [](/\ rpc # "done" => calls.Close = 0
          /\ rpc = "done" =>
                /\ calls.Close = (IF fault.step = "NewClient" THEN 0 ELSE 1)
                /\ rerr = ResultOf(fault)
          /\ calls.Close = 1 =>
                /\ calls.NewClient = 1
                /\ calls.FetchNetworks = 1
                /\ fault.step = "none" =>
                      calls.FetchContainers = 1 /\ calls.printVisualization = 1)
    /\ [][/\ calls'.Close # calls.Close =>
                /\ rpc = "return" /\ rpc' = "done"
                /\ calls' = [calls EXCEPT !.Close = 1]
                /\ rerr' = rerr /\ sink' = sink
          /\ rpc = "done" => calls' = calls]_vars

\* a run that rendered and whose Close then failed: nil is returned all the same
C29_Witness ==
    /\ rpc = "done"
    /\ fault.step = "none"
    /\ daemon.close = <<"connection refused">>
    /\ calls.Close = 1
    /\ calls.printVisualization = 1
    /\ rerr = Nil
    /\ sink # <<>>

\* the network blocks and the container blocks of a printVisualization text
SectionsOf(text) ==
    LET lines == SplitLines(Undecorate(text))
        split == CHOOSE i \in 1..Len(lines) : lines[i] = Chomp(txtContainersHeader)
    IN  [nets |-> SplitBlocks(SubSeq(lines, 2, split - 1)),
         cts |-> SplitBlocks(SubSeq(lines, split + 1, Len(lines)))]

\* blocks without their alias lines
WithoutAliasLines(blocks) ==
    [i \in 1..Len(blocks) |-> SelectSeq(blocks[i], LAMBDA line : ~Contains(line, txtAlias))]

\* what printVisualization writes for the maps of the state under another configuration
VizUnder(c) ==
    printVisualization(heap, c, networks, containerMap, networkToContainers,
                       CHOOSE p \in Perms(DOMAIN containerMap) : TRUE)

\* only-network filters, container filters
FilterNetworks == {<<>>, sN1, sN2}
FilterContainers == {<<>>, sA, sB}

\* C30: the Containers section printVisualization writes (the blocks, the
\* networks each lists and the names under each) is the same under every
\* setting of the only-network filter; the network blocks of the Networks
\* section and the container lines in them are the same under every
\* setting of the container filter and of the no-aliases flag.
C30_DisjointFilters ==
    tree.op = "printVisualization" =>
        \A here \in {SectionsOf(sink)} :
            /\ \A o \in FilterNetworks :
                  SectionsOf(VizUnder([cfg EXCEPT !.onlyNetwork = o])).cts = here.cts
            /\ \A c \in FilterContainers, na \in BOOLEAN :
                  WithoutAliasLines(
                      SectionsOf(VizUnder([cfg EXCEPT !.container = c, !.noAliases = na])).nets)
                    = WithoutAliasLines(here.nets)

\* rendered with the network filter "n1", the container filter "a" and
\* aliases on: one network block with container and alias lines where the raw
\* list has more networks, and the block of "a" alone where the map has more
\* entries
C30_Witness ==
    /\ tree.op = "printVisualization"
    /\ cfg.onlyNetwork = sN1
    /\ cfg.container = sA
    /\ ~cfg.noAliases
    /\ \A here \in {SectionsOf(sink)} :
          /\ Len(here.nets) = 1
          /\ Len(here.nets[1]) > Len(WithoutAliasLines(here.nets)[1])
          /\ Len(WithoutAliasLines(here.nets)[1]) >= 3
          /\ Len(here.cts) = 1
          /\ here.cts # SectionsOf(VizUnder([cfg EXCEPT !.container = <<>>])).cts
          /\ here.nets # SectionsOf(VizUnder([cfg EXCEPT !.onlyNetwork = <<>>])).nets

====
